---- MODULE Spec2Model ----
(***************************************************************************)
(* Karaoke-bar bot (src/app/bot/bot.py, src/app/bot/models.py,             *)
(* src/app/utils.py): the aiogram handlers, the registration guard, the    *)
(* FSM storage and the three tables Users, Admins, Orders.                 *)
(*                                                                         *)
(* A text is the sequence of its "_"-separated segments, which is what     *)
(* the code's split('_') yields: "/complete_1" is <<"/complete", "1">>.    *)
(* A message without text (message.text is None) is <<>>.  An Optional     *)
(* column is a sequence of length 0 (None) or 1.                           *)
(***************************************************************************)
EXTENDS Integers, Sequences, FiniteSets, TLC

VARIABLES
    users,    \* table users: telegram_id -> row (the rows that exist)
    admins,   \* table admins: the telegram_ids, in insertion (row id) order
    orders,   \* table orders: the rows in id order
    fsm,      \* MemoryStorage: telegram_id -> FSM state name ("none" is None)
    data,     \* MemoryStorage: telegram_id -> data['search_results'] (<<>> absent)
    btn,      \* callback data of every button the bot has sent to an actor
    now,      \* the clock, in hours
    out,      \* the sends of the most recent event, in order, each with its outcome
    ran,      \* the handler whose body ran in the most recent event ("none": none did)
    tasks     \* handler runs suspended at an await (concurrent specification only)

vars == <<users, admins, orders, fsm, data, btn, now, out, ran, tasks>>

----------------------------------------------------------------------------
\* Bounds of the model
MaxOrders == 2
MaxNow == 20
TickHours == 17

\* Program constants
ExpiryHours == 16
PageSize == 10
ReportHours == 16

Null == <<>>
Some(x) == <<x>>

\* src/app/utils.py SONGS: the catalog snapshot
SONGS ==
    << [id |-> 42, title |-> "Rolling", artist |-> "Adele", has_backing |-> TRUE],
       [id |-> 7, title |-> "Yesterday", artist |-> "Beatles", has_backing |-> FALSE] >>

\* int(s) of the code: the strings it parses, and str(n)
IntLiteral == ("1" :> 1) @@ ("02" :> 2) @@ ("2" :> 2) @@ ("3" :> 3) @@ ("4" :> 4)
                @@ ("0" :> 0) @@ ("7" :> 7) @@ ("42" :> 42) @@ ("99" :> 99)
IsIntLiteral(s) == s \in DOMAIN IntLiteral
StrOfInt == (0 :> "0") @@ (1 :> "1") @@ (2 :> "2") @@ (3 :> "3") @@ (4 :> "4")
              @@ (5 :> "5") @@ (6 :> "6") @@ (7 :> "7") @@ (8 :> "8") @@ (9 :> "9")
              @@ (10 :> "10") @@ (11 :> "11") @@ (12 :> "12") @@ (13 :> "13")
              @@ (14 :> "14") @@ (15 :> "15") @@ (16 :> "16") @@ (17 :> "17")
              @@ (18 :> "18") @@ (19 :> "19") @@ (20 :> "20") @@ (21 :> "21")
              @@ (22 :> "22") @@ (23 :> "23") @@ (24 :> "24") @@ (25 :> "25")
              @@ (26 :> "26") @@ (27 :> "27") @@ (42 :> "42") @@ (99 :> "99")

ADMIN_PASSWORD == <<"secret">>

\* ORDER_STATUSES
ORDER_STATUSES == {"pending", "completed", "cancelled"}

\* The texts of the commands
T_start == <<"/start">>
T_history == <<"/history">>
T_reset == <<"/reset">>
T_new_admin == <<"/new", "admin">>
T_completed == <<"/completed">>
T_search == <<"/search">>
T_orders == <<"/orders">>

\* UserState and SearchState
FsmStates == {"none", "waiting_for_name", "waiting_for_table", "ready_to_search",
              "waiting_for_admin_password", "waiting_for_artist",
              "waiting_for_title", "waiting_for_free_search"}

\* create_search_type_buttons
SearchTypeButtons == {<<"search", "by", "artist">>, <<"search", "by", "title">>,
                      <<"search", "free">>}

\* create_order_buttons
OrderButtons(song_id) == {<<"order", song_id>>, <<"find", "another">>}

\* create_reorder_button
ReorderButton(song_id) == {<<"order", StrOfInt[song_id]>>}

\* One send: bot.send_message / message.reply / edit_text, with its outcome
Msg(to, kind, id, info) == [to |-> to, kind |-> kind, id |-> id, info |-> info, ok |-> TRUE]
Failed(m) == [m EXCEPT !.ok = FALSE]

IsAdmin(a) == \E i \in 1..Len(admins) : admins[i] = a
HasUser(a) == a \in DOMAIN users

NewUserMut == [display_name |-> Null, table_number |-> Null,
               is_registered |-> TRUE, registered_at |-> Null]
\* User(...) of start_command
NewUser == [display_name |-> Null, table_number |-> Null,
            is_registered |-> FALSE, registered_at |-> Null]

----------------------------------------------------------------------------
\* Dispatch: the first handler, in registration order, whose filter matches.

StartsWithOrderAction(text) ==
    Len(text) >= 2 /\ text[1] \in {"/complete", "/cancel"}

RouteMessage(state, text) ==
    IF text = T_start THEN "start_command"
    ELSE IF text = T_history THEN "show_user_history"
    ELSE IF text = T_reset THEN "reset_command"
    ELSE IF text = T_new_admin THEN "new_admin_command"
    ELSE IF state = "waiting_for_admin_password" THEN "process_admin_password"
    ELSE IF state = "waiting_for_name" THEN "process_name"
    ELSE IF state = "waiting_for_table" THEN "process_table"
    ELSE IF state = "ready_to_search" THEN "show_search_options"
    ELSE IF state = "waiting_for_artist" THEN "process_artist_search"
    ELSE IF state = "waiting_for_title" THEN "process_title_search"
    ELSE IF state = "waiting_for_free_search" THEN "process_free_search"
    ELSE IF text = T_completed THEN "list_completed_orders"
    ELSE IF text = T_search THEN "admin_search_command"
    ELSE IF text = T_orders THEN "list_orders"
    ELSE IF StartsWithOrderAction(text) THEN "handle_order_action"
    ELSE "handle_unknown_message"

RouteCallback(cb) ==
    IF Len(cb) >= 2 /\ cb[1] = "search" THEN "process_search_type"
    ELSE IF Len(cb) >= 2 /\ cb[1] = "song" THEN "process_song_selection"
    ELSE IF Len(cb) >= 2 /\ cb[1] = "order" THEN "process_order"
    ELSE IF cb = <<"find", "another">> THEN "process_find_another"
    ELSE IF Len(cb) >= 2 /\ cb[1] = "page" THEN "process_pagination"
    ELSE IF cb = <<"ignore">> THEN "process_ignore"
    ELSE IF cb = <<"exit", "search">> THEN "process_exit_search"
    ELSE "unhandled"

----------------------------------------------------------------------------
\* require_registration and check_registration_expiry

\* current_time > expiry_time
IsExpired(u) ==
    u.registered_at # Null /\ now > u.registered_at[1] + ExpiryHours

ExpireUserMut(u) ==
    [u EXCEPT !.is_registered = FALSE, !.display_name = Null, !.table_number = Null]
ExpireUserMut2(u) ==
    [u EXCEPT !.display_name = Null, !.table_number = Null]
\* the fields check_registration_expiry resets
ExpireUser(u) ==
    [u EXCEPT !.is_registered = FALSE, !.display_name = Null,
              !.table_number = Null, !.registered_at = Null]

NotRegisteredMut(a) == ~HasUser(a)
\* if not user or not user.is_registered
NotRegistered(a) == ~HasUser(a) \/ ~users[a].is_registered

GuardOutcomeMut(a, hasState) ==
    IF NotRegistered(a) THEN "unregistered"
    ELSE IF IsExpired(users[a]) THEN (IF hasState THEN "expired" ELSE "expired_error")
    ELSE "registered"

\* What the wrapper does for actor a.  hasState: the wrapped handler takes the
\* FSM context, so that kwargs.get('state') is not None.  With state None,
\* state.clear() raises after the commit, the except clause logs, and
\* check_registration_expiry returns True: the body runs.
GuardOutcome(a, hasState) ==
    IF IsAdmin(a) THEN "admin"
    ELSE IF NotRegistered(a) THEN "unregistered"
    ELSE IF IsExpired(users[a]) THEN (IF hasState THEN "expired" ELSE "expired_error")
    ELSE "registered"

GuardAdmits(g) == g \in {"admin", "registered", "expired_error"}

UsersAfterGuardMut(a, g) ==
    IF g \in {"expired", "expired_error"}
    THEN [b \in DOMAIN users |-> ExpireUser(users[b])]
    ELSE users
\* the rows after check_registration_expiry
UsersAfterGuard(a, g) ==
    IF g \in {"expired", "expired_error"}
    THEN [users EXCEPT ![a] = ExpireUser(users[a])]
    ELSE users

\* The event of a rejected actor: the whole effect of the wrapper
GuardRejects(a, g) ==
    /\ ~GuardAdmits(g)
    /\ users' = UsersAfterGuard(a, g)
    /\ fsm' = IF g = "expired" THEN [fsm EXCEPT ![a] = "none"] ELSE fsm
    /\ data' = IF g = "expired" THEN [data EXCEPT ![a] = <<>>] ELSE data
    /\ out' = IF g = "expired"
              THEN << Msg(a, "registration_expired", 0, Null) >>
              ELSE << Msg(a, "not_registered", 0, Null) >>
    /\ ran' = "none"
    /\ UNCHANGED <<admins, orders, btn, now, tasks>>

----------------------------------------------------------------------------
\* Registration handlers

check_registration_stateMut(a) ==
    IF users[a].table_number = Null THEN "waiting_for_table"
    ELSE IF ~users[a].is_registered THEN "waiting_for_name"
    ELSE fsm[a]
\* check_registration_state: the state it sets (the current one when it returns True)
check_registration_state(a) ==
    IF ~users[a].is_registered THEN "waiting_for_name"
    ELSE IF users[a].table_number = Null THEN "waiting_for_table"
    ELSE fsm[a]

check_registration_reply(a) ==
    IF ~users[a].is_registered THEN << Msg(a, "ask_name_again", 0, Null) >>
    ELSE IF users[a].table_number = Null THEN << Msg(a, "ask_table", 0, Null) >>
    ELSE << >>

start_command(a, text) ==
    /\ RouteMessage(fsm[a], text) = "start_command"
    /\ ran' = "start_command"
    /\ IF IsAdmin(a)
       THEN /\ out' = << Msg(a, "admin_panel", 0, Null) >>
            /\ UNCHANGED <<users, fsm>>
       ELSE IF ~HasUser(a)
       THEN /\ users' = users @@ (a :> NewUser)
            /\ out' = << Msg(a, "welcome_ask_name", 0, Null) >>
            /\ fsm' = [fsm EXCEPT ![a] = "waiting_for_name"]
       ELSE /\ out' = check_registration_reply(a)
            /\ fsm' = [fsm EXCEPT ![a] = check_registration_state(a)]
            /\ UNCHANGED users
    /\ UNCHANGED <<admins, orders, data, btn, now, tasks>>

ResetUserMut(u) ==
    [u EXCEPT !.display_name = Null, !.is_registered = FALSE]
\* the fields reset_command resets (registered_at is not among them)
ResetUser(u) ==
    [u EXCEPT !.display_name = Null, !.table_number = Null, !.is_registered = FALSE]

reset_command(a, text) ==
    /\ RouteMessage(fsm[a], text) = "reset_command"
    /\ LET g == GuardOutcome(a, TRUE) IN
       IF ~GuardAdmits(g) THEN GuardRejects(a, g)
       ELSE /\ ran' = "reset_command"
            /\ IF IsAdmin(a)
               THEN /\ out' = << Msg(a, "reset_not_for_admins", 0, Null) >>
                    /\ UNCHANGED <<users, fsm, data>>
               ELSE IF HasUser(a)
               THEN /\ users' = [users EXCEPT ![a] = ResetUser(users[a])]
                    /\ out' = << Msg(a, "registration_reset", 0, Null) >>
                    /\ fsm' = [fsm EXCEPT ![a] = "none"]
                    /\ data' = [data EXCEPT ![a] = <<>>]
               ELSE /\ out' = << Msg(a, "not_yet_registered", 0, Null) >>
                    /\ UNCHANGED <<users, fsm, data>>
            /\ UNCHANGED <<admins, orders, btn, now, tasks>>

new_admin_command(a, text) ==
    /\ RouteMessage(fsm[a], text) = "new_admin_command"
    /\ ran' = "new_admin_command"
    /\ out' = << Msg(a, "ask_admin_password", 0, Null) >>
    /\ fsm' = [fsm EXCEPT ![a] = "waiting_for_admin_password"]
    /\ UNCHANGED <<users, admins, orders, data, btn, now, tasks>>

PasswordOkMut(text) == text # Null
\* if message.text == ADMIN_PASSWORD
PasswordOk(text) == text = ADMIN_PASSWORD

process_admin_password(a, text) ==
    /\ RouteMessage(fsm[a], text) = "process_admin_password"
    /\ ran' = "process_admin_password"
    /\ IF PasswordOk(text)
       THEN IF ~IsAdmin(a)
            THEN /\ admins' = Append(admins, a)
                 /\ out' = << Msg(a, "admin_added", 0, Null) >>
            ELSE /\ out' = << Msg(a, "already_admin", 0, Null) >>
                 /\ UNCHANGED admins
       ELSE /\ out' = << Msg(a, "wrong_password", 0, Null) >>
            /\ UNCHANGED admins
    /\ fsm' = [fsm EXCEPT ![a] = "none"]
    /\ data' = [data EXCEPT ![a] = <<>>]
    /\ UNCHANGED <<users, orders, btn, now, tasks>>

process_name(a, text) ==
    /\ RouteMessage(fsm[a], text) = "process_name"
    /\ ran' = "process_name"
    /\ IF ~HasUser(a)
       THEN /\ out' = << Msg(a, "error_start_over", 0, Null) >>
            /\ UNCHANGED <<users, fsm>>
       ELSE /\ users' = [users EXCEPT ![a].display_name = text,
                                      ![a].is_registered = TRUE]
            /\ out' = << Msg(a, "thanks_ask_table", 0, text) >>
            /\ fsm' = [fsm EXCEPT ![a] = "waiting_for_table"]
    /\ UNCHANGED <<admins, orders, data, btn, now, tasks>>

process_table(a, text) ==
    /\ RouteMessage(fsm[a], text) = "process_table"
    /\ ran' = "process_table"
    /\ IF HasUser(a)
       THEN /\ users' = [users EXCEPT ![a].table_number = text,
                                      ![a].is_registered = TRUE,
                                      ![a].registered_at = Some(now)]
            /\ out' = << Msg(a, "table_set_search_menu", 0, text) >>
            /\ btn' = [btn EXCEPT ![a] = @ \cup SearchTypeButtons]
            /\ fsm' = [fsm EXCEPT ![a] = "ready_to_search"]
            /\ UNCHANGED data
       ELSE /\ out' = << Msg(a, "error_start_over", 0, Null) >>
            /\ fsm' = [fsm EXCEPT ![a] = "none"]
            /\ data' = [data EXCEPT ![a] = <<>>]
            /\ UNCHANGED <<users, btn>>
    /\ UNCHANGED <<admins, orders, now, tasks>>

show_search_options(a, text) ==
    /\ RouteMessage(fsm[a], text) = "show_search_options"
    /\ ran' = "show_search_options"
    /\ out' = << Msg(a, "search_menu", 0, Null) >>
    /\ btn' = [btn EXCEPT ![a] = @ \cup SearchTypeButtons]
    /\ UNCHANGED <<users, admins, orders, fsm, data, now, tasks>>

----------------------------------------------------------------------------
\* Search and result browsing.  A search result is the sequence of the ids of
\* the songs the search service returned.

Min(x, y) == IF x < y THEN x ELSE y

\* songs[start_idx:end_idx] of create_song_buttons
PageSlice(songs, page) ==
    LET start_idx == page * PageSize
        end_idx == start_idx + PageSize
    IN  IF start_idx >= Len(songs) THEN << >>
        ELSE SubSeq(songs, start_idx + 1, Min(end_idx, Len(songs)))

NavButtonsMut(songs, page) ==
    (IF page > 0 THEN << <<"page", StrOfInt[page - 1]>> >> ELSE << >>)
    \o (IF page * PageSize + PageSize <= Len(songs)
        THEN << <<"page", StrOfInt[page + 1]>> >> ELSE << >>)
\* the navigation row of create_song_buttons
NavButtons(songs, page) ==
    (IF page > 0 THEN << <<"page", StrOfInt[page - 1]>> >> ELSE << >>)
    \o (IF page * PageSize + PageSize < Len(songs)
        THEN << <<"page", StrOfInt[page + 1]>> >> ELSE << >>)

\* create_song_buttons: the callback data of the keyboard, row by row
create_song_buttons(songs, page) ==
    [i \in 1..Len(PageSlice(songs, page)) |->
        <<"song", StrOfInt[PageSlice(songs, page)[i]]>>]
    \o NavButtons(songs, page)
    \o << <<"ignore">>, <<"exit", "search">> >>

Range(f) == {f[i] : i \in DOMAIN f}

\* {song['id']: song for song in all_results}.values()
RECURSIVE DedupById(_)
DedupById(ids) ==
    IF ids = << >> THEN << >>
    ELSE LET init == DedupById(SubSeq(ids, 1, Len(ids) - 1))
             last == ids[Len(ids)]
         IN  IF last \in Range(init) THEN init ELSE Append(init, last)

process_search_type(a, cb) ==
    /\ RouteCallback(cb) = "process_search_type"
    /\ LET g == GuardOutcome(a, TRUE) IN
       IF ~GuardAdmits(g) THEN GuardRejects(a, g)
       ELSE /\ ran' = "process_search_type"
            /\ IF cb = <<"search", "by", "artist">>
               THEN /\ fsm' = [fsm EXCEPT ![a] = "waiting_for_artist"]
                    /\ out' = << Msg(a, "ask_artist", 0, Null) >>
               ELSE IF cb = <<"search", "by", "title">>
               THEN /\ fsm' = [fsm EXCEPT ![a] = "waiting_for_title"]
                    /\ out' = << Msg(a, "ask_title", 0, Null) >>
               ELSE IF cb = <<"search", "free">>
               THEN /\ fsm' = [fsm EXCEPT ![a] = "waiting_for_free_search"]
                    /\ out' = << Msg(a, "ask_free_text", 0, Null) >>
               ELSE /\ out' = << >>
                    /\ UNCHANGED fsm
            /\ UNCHANGED <<users, admins, orders, data, btn, now, tasks>>

\* The common body of the three search handlers once the service has answered:
\* up: the call succeeded (status 200, no exception); songs: what it returned.
SearchBody(a, handler, up, songs, notFound) ==
    /\ ran' = handler
    /\ IF ~up
       THEN /\ out' = << Msg(a, "search_error", 0, Null) >>
            /\ UNCHANGED <<data, btn>>
       ELSE IF songs = << >>
       THEN /\ out' = << Msg(a, notFound, 0, Null) >>
            /\ btn' = [btn EXCEPT ![a] = @ \cup SearchTypeButtons]
            /\ UNCHANGED data
       ELSE /\ data' = [data EXCEPT ![a] = songs]
            /\ out' = << Msg(a, "results", Len(songs), Null) >>
            /\ btn' = [btn EXCEPT ![a] = @ \cup Range(create_song_buttons(songs, 0))]
    /\ UNCHANGED <<users, admins, orders, fsm, now, tasks>>

\* what the search service may return: no song, or two songs of which the
\* second is not in the catalog snapshot
ResultLists == {<< >>, <<42, 99>>}

\* up: the call succeeded; found: all_results, over every name variation
process_artist_search(a, text) ==
    /\ RouteMessage(fsm[a], text) = "process_artist_search"
    /\ LET g == GuardOutcome(a, TRUE) IN
       IF ~GuardAdmits(g) THEN GuardRejects(a, g)
       ELSE \E up \in BOOLEAN, found \in ResultLists :
               SearchBody(a, "process_artist_search", up, DedupById(found \o found),
                          "artist_not_found")

process_title_search(a, text) ==
    /\ RouteMessage(fsm[a], text) = "process_title_search"
    /\ LET g == GuardOutcome(a, TRUE) IN
       IF ~GuardAdmits(g) THEN GuardRejects(a, g)
       ELSE \E up \in BOOLEAN, found \in ResultLists :
               SearchBody(a, "process_title_search", up, found, "song_not_found")

fetch_songsMut(up, found) == found
\* fetch_songs returns [] when the call fails
fetch_songs(up, found) == IF up THEN found ELSE << >>

process_free_search(a, text) ==
    /\ RouteMessage(fsm[a], text) = "process_free_search"
    /\ LET g == GuardOutcome(a, TRUE) IN
       IF ~GuardAdmits(g) THEN GuardRejects(a, g)
       ELSE \E up \in BOOLEAN, found \in ResultLists :
               SearchBody(a, "process_free_search", TRUE, fetch_songs(up, found),
                          "nothing_found")

process_song_selection(a, cb) ==
    /\ RouteCallback(cb) = "process_song_selection"
    /\ LET g == GuardOutcome(a, FALSE) IN
       IF ~GuardAdmits(g) THEN GuardRejects(a, g)
       ELSE /\ ran' = "process_song_selection"
            /\ users' = UsersAfterGuard(a, g)
            /\ out' = << Msg(a, "song_selected", 0, <<cb[2]>>) >>
            /\ btn' = [btn EXCEPT ![a] = @ \cup OrderButtons(cb[2])]
            /\ UNCHANGED <<admins, orders, fsm, data, now, tasks>>

process_find_another(a, cb) ==
    /\ RouteCallback(cb) = "process_find_another"
    /\ LET g == GuardOutcome(a, FALSE) IN
       IF ~GuardAdmits(g) THEN GuardRejects(a, g)
       ELSE /\ ran' = "process_find_another"
            /\ users' = UsersAfterGuard(a, g)
            /\ out' = << Msg(a, "search_menu", 0, Null) >>
            /\ btn' = [btn EXCEPT ![a] = @ \cup SearchTypeButtons]
            /\ UNCHANGED <<admins, orders, fsm, data, now, tasks>>

process_pagination(a, cb) ==
    /\ RouteCallback(cb) = "process_pagination"
    /\ ran' = "process_pagination"
    /\ IF ~IsIntLiteral(cb[2])
       THEN /\ out' = << Msg(a, "navigation_error", 0, Null) >>
            /\ UNCHANGED btn
       ELSE IF data[a] = << >>
       THEN /\ out' = << Msg(a, "results_outdated", 0, Null) >>
            /\ UNCHANGED btn
       ELSE /\ out' = << Msg(a, "page", IntLiteral[cb[2]],
                              create_song_buttons(data[a], IntLiteral[cb[2]])) >>
            /\ btn' = [btn EXCEPT ![a] =
                          @ \cup Range(create_song_buttons(data[a], IntLiteral[cb[2]]))]
    /\ UNCHANGED <<users, admins, orders, fsm, data, now, tasks>>

process_ignore(a, cb) ==
    /\ RouteCallback(cb) = "process_ignore"
    /\ ran' = "process_ignore"
    /\ out' = << >>
    /\ UNCHANGED <<users, admins, orders, fsm, data, btn, now, tasks>>

\* set_state(ready_to_search) of the non-admin branch is followed by state.clear()
process_exit_search(a, cb) ==
    /\ RouteCallback(cb) = "process_exit_search"
    /\ ran' = "process_exit_search"
    /\ IF IsAdmin(a)
       THEN /\ out' = << Msg(a, "search_finished_admin", 0, Null) >>
            /\ UNCHANGED btn
       ELSE /\ out' = << Msg(a, "search_finished_menu", 0, Null) >>
            /\ btn' = [btn EXCEPT ![a] = @ \cup SearchTypeButtons]
    /\ fsm' = [fsm EXCEPT ![a] = "none"]
    /\ data' = [data EXCEPT ![a] = << >>]
    /\ UNCHANGED <<users, admins, orders, now, tasks>>

----------------------------------------------------------------------------
\* Orders

\* next((song for song in SONGS if str(song.id) == song_id), None)
SongMatches(song_id) == {i \in 1..Len(SONGS) : StrOfInt[SONGS[i].id] = song_id}
FindSongMut(song_id) == Some(SONGS[1])
FindSong(song_id) ==
    IF SongMatches(song_id) = {} THEN Null
    ELSE Some(SONGS[CHOOSE i \in SongMatches(song_id) :
                        \A j \in SongMatches(song_id) : i <= j])

MaxId(os) == IF os = << >> THEN 0
             ELSE CHOOSE m \in {os[i].id : i \in 1..Len(os)} :
                      \A i \in 1..Len(os) : os[i].id <= m

NextOrderIdMut(os) == 1
\* Order.id, Integer primary key: the store assigns the largest id plus one
NextOrderId(os) == MaxId(os) + 1

\* Order(...) of process_order, with the column defaults
NewOrder(a, song) ==
    [id |-> NextOrderId(orders), user_id |-> a, song_id |-> song.id,
     song_title |-> song.title, song_artist |-> song.artist,
     has_backing |-> song.has_backing, status |-> "pending",
     ordered_at |-> now, completed_at |-> Null]

\* if user and song
CanOrder(a, song_id) == HasUser(a) /\ FindSong(song_id) # Null

OrderNoticeMut(admin, order, table) ==
    Msg(admin, "new_order", order.id, <<StrOfInt[order.song_id]>>)
\* the message notify_admins sends to one admin
OrderNotice(admin, order, table) ==
    Msg(admin, "new_order", order.id, <<StrOfInt[order.song_id]>> \o table)

\* notify_admins: the sends of the loop over session.query(Admin).all().  The
\* loop is inside the try: the first send that raises ends it.
RECURSIVE notify_admins(_, _, _, _)
notify_admins(recipients, order, table, failing) ==
    IF recipients = << >> THEN << >>
    ELSE IF Head(recipients) \in failing
    THEN << Failed(OrderNotice(Head(recipients), order, table)) >>
    ELSE << OrderNotice(Head(recipients), order, table) >>
         \o notify_admins(Tail(recipients), order, table, failing)

NotifyRaisesMut(sends) == \E i \in 1..Len(sends) : ~sends[i].ok
\* except Exception as e: logger.error(...): nothing reaches the caller
NotifyRaises(sends) == FALSE

\* failing: the admins a send to whom raises during this event
process_order(a, cb) ==
    /\ RouteCallback(cb) = "process_order"
    /\ LET g == GuardOutcome(a, TRUE) IN
       IF ~GuardAdmits(g) THEN GuardRejects(a, g)
       ELSE /\ ran' = "process_order"
            /\ IF CanOrder(a, cb[2])
               THEN \E failing \in SUBSET Range(admins) :
                    LET order == NewOrder(a, FindSong(cb[2])[1])
                        sends == notify_admins(admins, order,
                                               users[a].table_number, failing)
                    IN  /\ Len(orders) < MaxOrders
                        /\ orders' = Append(orders, order)
                        /\ IF NotifyRaises(sends)
                           THEN /\ out' = sends \o << Msg(a, "order_error", 0, Null) >>
                                /\ UNCHANGED <<fsm, btn>>
                           ELSE /\ out' = sends \o << Msg(a, "order_sent", order.id, Null) >>
                                /\ btn' = [btn EXCEPT ![a] = @ \cup SearchTypeButtons]
                                /\ fsm' = [fsm EXCEPT ![a] = "ready_to_search"]
               ELSE /\ out' = << Msg(a, "order_error", 0, Null) >>
                    /\ UNCHANGED <<orders, fsm, btn>>
            /\ UNCHANGED <<users, admins, data, now, tasks>>

OrderIndexMut(order_id) == 1..Len(orders)
\* session.query(Order).filter_by(id=order_id).first()
OrderIndex(order_id) == {i \in 1..Len(orders) : orders[i].id = order_id}

AlreadyProcessedMut(order) == FALSE
AlreadyProcessedMut2(order) == order.status = "cancelled"
\* if order.status != "pending"
AlreadyProcessed(order) == order.status # "pending"

IsAdminForOrdersMut(a) == TRUE
\* admin = session.query(Admin).filter_by(telegram_id=...).first(); if not admin
IsAdminForOrders(a) == IsAdmin(a)

ResolveOrderMut(order, action) ==
    [order EXCEPT !.status = IF action = "/complete" THEN "completed" ELSE "cancelled"]
\* order.status = ...; order.completed_at = datetime.now(timezone.utc)
ResolveOrder(order, action) ==
    [order EXCEPT !.status = IF action = "/complete" THEN "completed" ELSE "cancelled",
                  !.completed_at = Some(now)]

OwnerNoticeMut(order, failing) ==
    << Msg(order.user_id, "status_update", order.id, <<"completed">>) >>
\* the notification to the order's owner, and the reply when it cannot be sent
OwnerNotice(order, failing) ==
    IF order.user_id \in failing
    THEN << Failed(Msg(order.user_id, "status_update", order.id, <<order.status>>)) >>
    ELSE << Msg(order.user_id, "status_update", order.id, <<order.status>>) >>

handle_order_action(a, text) ==
    /\ RouteMessage(fsm[a], text) = "handle_order_action"
    /\ ran' = "handle_order_action"
    /\ IF ~IsAdminForOrders(a)
       THEN /\ out' = << Msg(a, "admin_only", 0, Null) >>
            /\ UNCHANGED orders
       ELSE IF Len(text) # 2 \/ ~IsIntLiteral(text[2])
       THEN /\ out' = << Msg(a, "bad_format", 0, Null) >>
            /\ UNCHANGED orders
       ELSE LET order_id == IntLiteral[text[2]] IN
            IF OrderIndex(order_id) = {}
            THEN /\ out' = << Msg(a, "order_not_found", order_id, Null) >>
                 /\ UNCHANGED orders
            ELSE LET i == CHOOSE i \in OrderIndex(order_id) : TRUE
                     order == orders[i]
                 IN  IF AlreadyProcessed(order)
                     THEN /\ out' = << Msg(a, "already_processed", order_id,
                                           <<order.status>>) >>
                          /\ UNCHANGED orders
                     ELSE \E failing \in {{}, {order.user_id}} :
                          LET resolved == ResolveOrder(order, text[1]) IN
                          /\ orders' = [orders EXCEPT ![i] = resolved]
                          /\ out' = << Msg(a, "order_resolved", order_id,
                                           <<resolved.status>>) >>
                                    \o OwnerNotice(resolved, failing)
                                    \o (IF resolved.user_id \in failing
                                        THEN << Msg(a, "owner_not_notified", order_id, Null) >>
                                        ELSE << >>)
    /\ UNCHANGED <<users, admins, fsm, data, btn, now, tasks>>

----------------------------------------------------------------------------
\* Listings and the remaining handlers

\* the pending orders, in id order
PendingOrders == SelectSeq(orders, LAMBDA o : o.status = "pending")

list_orders(a, text) ==
    /\ RouteMessage(fsm[a], text) = "list_orders"
    /\ LET g == GuardOutcome(a, FALSE) IN
       IF ~GuardAdmits(g) THEN GuardRejects(a, g)
       ELSE /\ ran' = "list_orders"
            /\ users' = UsersAfterGuard(a, g)
            /\ out' = IF ~IsAdmin(a) THEN << Msg(a, "admin_only", 0, Null) >>
                      ELSE IF PendingOrders = << >>
                      THEN << Msg(a, "no_active_orders", 0, Null) >>
                      ELSE [i \in 1..Len(PendingOrders) |->
                               Msg(a, "pending_order", PendingOrders[i].id, Null)]
            /\ UNCHANGED <<admins, orders, fsm, data, btn, now, tasks>>

\* the completed orders of a user, Order.ordered_at.desc() (equal times: by id)
RECURSIVE SortByOrderedAtDesc(_)
SortByOrderedAtDesc(os) ==
    IF os = {} THEN << >>
    ELSE LET first == CHOOSE o \in os : \A p \in os :
                          \/ o.ordered_at > p.ordered_at
                          \/ (o.ordered_at = p.ordered_at /\ o.id <= p.id)
         IN  << first >> \o SortByOrderedAtDesc(os \ {first})

\* unique_songs: the first order of every artist:title key
RECURSIVE UniqueSongs(_)
UniqueSongs(os) ==
    IF os = << >> THEN << >>
    ELSE LET init == UniqueSongs(SubSeq(os, 1, Len(os) - 1))
             last == os[Len(os)]
         IN  IF \E i \in 1..Len(init) : /\ init[i].song_artist = last.song_artist
                                        /\ init[i].song_title = last.song_title
             THEN init ELSE Append(init, last)

UserHistory(a) ==
    LET done == {orders[i] : i \in {j \in 1..Len(orders) :
                     orders[j].user_id = a /\ orders[j].status = "completed"}}
        uniq == UniqueSongs(SortByOrderedAtDesc(done))
    IN  SubSeq(uniq, 1, Min(Len(uniq), PageSize))

show_user_history(a, text) ==
    /\ RouteMessage(fsm[a], text) = "show_user_history"
    /\ LET g == GuardOutcome(a, FALSE) IN
       IF ~GuardAdmits(g) THEN GuardRejects(a, g)
       ELSE /\ ran' = "show_user_history"
            /\ users' = UsersAfterGuard(a, g)
            /\ LET h == UserHistory(a) IN
               /\ out' = IF h = << >> THEN << Msg(a, "no_history", 0, Null) >>
                         ELSE << Msg(a, "history_header", 0, Null) >>
                              \o [i \in 1..Len(h) |->
                                     Msg(a, "history_song", h[i].song_id, Null)]
               /\ btn' = [btn EXCEPT ![a] = @ \cup
                             UNION {ReorderButton(h[i].song_id) : i \in 1..Len(h)}]
            /\ UNCHANGED <<admins, orders, fsm, data, now, tasks>>

\* Order.status.in_(["completed", "cancelled"]), Order.completed_at >= time_threshold
InReport(order) ==
    /\ order.status \in {"completed", "cancelled"}
    /\ order.completed_at # Null
    /\ order.completed_at[1] >= now - ReportHours

\* orders_by_table: the keys, and the orders under a key
ReportTables == {users[o.user_id].table_number : o \in {p \in Range(orders) : InReport(p)}}
TableOrders(table) ==
    {o \in Range(orders) : InReport(o) /\ users[o.user_id].table_number = table}

\* the table numbers the users of the model type, in the order of str
TableStrings == <<"12", "5", "7", "9", "Alice">>
TableRank(table) == CHOOSE i \in 1..Len(TableStrings) : TableStrings[i] = table[1]

\* sorted(orders_by_table.items()): comparing None with a str raises TypeError
SortRaises(tables) == Null \in tables /\ Cardinality(tables) > 1
RECURSIVE SortTables(_)
SortTables(tables) ==
    IF tables = {} THEN << >>
    ELSE LET first == CHOOSE t \in tables :
                         \A u \in tables : t = Null \/ TableRank(t) <= TableRank(u)
         IN  << first >> \o SortTables(tables \ {first})

\* ', '.join(users) raises TypeError when a display_name is None
JoinRaises(table) == \E o \in TableOrders(table) : users[o.user_id].display_name = Null

\* the loop over the tables: one message a table, until one raises
RECURSIVE TableReports(_, _)
TableReports(a, tables) ==
    IF tables = << >> THEN << >>
    ELSE IF JoinRaises(Head(tables))
    THEN << Msg(a, "completed_error", 0, Null) >>
    ELSE << Msg(a, "table_report", Cardinality(TableOrders(Head(tables))),
                <<Head(tables), {o.id : o \in TableOrders(Head(tables))}>>) >>
         \o TableReports(a, Tail(tables))

list_completed_orders(a, text) ==
    /\ RouteMessage(fsm[a], text) = "list_completed_orders"
    /\ ran' = "list_completed_orders"
    /\ out' = IF ~IsAdmin(a) THEN << Msg(a, "admin_only", 0, Null) >>
              ELSE IF ReportTables = {}
              THEN << Msg(a, "no_completed_orders", 0, Null) >>
              ELSE << Msg(a, "completed_summary",
                          Cardinality({o \in Range(orders) : InReport(o)}), Null) >>
                   \o (IF SortRaises(ReportTables)
                       THEN << Msg(a, "completed_error", 0, Null) >>
                       ELSE TableReports(a, SortTables(ReportTables)))
    /\ UNCHANGED <<users, admins, orders, fsm, data, btn, now, tasks>>

admin_search_command(a, text) ==
    /\ RouteMessage(fsm[a], text) = "admin_search_command"
    /\ ran' = "admin_search_command"
    /\ IF ~IsAdmin(a)
       THEN /\ out' = << Msg(a, "admin_only", 0, Null) >>
            /\ UNCHANGED <<fsm, btn>>
       ELSE /\ out' = << Msg(a, "search_menu", 0, Null) >>
            /\ btn' = [btn EXCEPT ![a] = @ \cup SearchTypeButtons]
            /\ fsm' = [fsm EXCEPT ![a] = "ready_to_search"]
    /\ UNCHANGED <<users, admins, orders, data, now, tasks>>

RepairStateMut(u) ==
    IF ~u.is_registered THEN "waiting_for_name" ELSE "ready_to_search"
RepairStateMut2(u) == "none"
\* the state handle_unknown_message sets for a user that has none
RepairState(u) ==
    IF ~u.is_registered THEN "waiting_for_name"
    ELSE IF u.table_number = Null THEN "waiting_for_table"
    ELSE "ready_to_search"

handle_unknown_message(a, text) ==
    /\ RouteMessage(fsm[a], text) = "handle_unknown_message"
    /\ ran' = "handle_unknown_message"
    /\ IF IsAdmin(a)
       THEN /\ out' = << Msg(a, "admin_commands", 0, Null) >>
            /\ UNCHANGED <<fsm, btn>>
       ELSE IF ~HasUser(a)
       THEN /\ out' = << Msg(a, "welcome_use_start", 0, Null) >>
            /\ UNCHANGED <<fsm, btn>>
       ELSE IF fsm[a] # "none"
       THEN /\ out' = << >>
            /\ UNCHANGED <<fsm, btn>>
       ELSE IF ~users[a].is_registered
       THEN /\ out' = << Msg(a, "ask_name_again", 0, Null) >>
            /\ fsm' = [fsm EXCEPT ![a] = RepairState(users[a])]
            /\ UNCHANGED btn
       ELSE IF users[a].table_number = Null
       THEN /\ out' = << Msg(a, "ask_table", 0, Null) >>
            /\ fsm' = [fsm EXCEPT ![a] = RepairState(users[a])]
            /\ UNCHANGED btn
       ELSE /\ out' = << Msg(a, "hello_search_menu", 0, users[a].table_number) >>
            /\ btn' = [btn EXCEPT ![a] = @ \cup SearchTypeButtons]
            /\ fsm' = [fsm EXCEPT ![a] = RepairState(users[a])]
    /\ UNCHANGED <<users, admins, orders, data, now, tasks>>

\* The clock advances between events
Tick ==
    /\ now + TickHours <= MaxNow
    /\ now' = now + TickHours
    /\ out' = << >>
    /\ ran' = "none"
    /\ UNCHANGED <<users, admins, orders, fsm, data, btn, tasks>>

----------------------------------------------------------------------------
\* The order lifecycle.  The process starts (MemoryStorage empty) on a store
\* written by earlier runs: actor 1 is a registered user, actor 2 a user who
\* has sent /reset, actors 3 and 4 are admins without a User row.  Every
\* actor has been sent
\* the search menu, a result list and the order buttons of two items, of
\* which item 99 is not in the catalog snapshot.

Actors == {1, 2, 3, 4}

RegisteredUser(name, table) ==
    [display_name |-> name, table_number |-> table,
     is_registered |-> TRUE, registered_at |-> Some(0)]

SentButtons ==
    SearchTypeButtons \cup OrderButtons("42") \cup OrderButtons("99")
    \cup Range(create_song_buttons(<<42, 99>>, 0))

OrderTexts == {<<"/complete", "1">>, <<"/cancel", "1">>, <<"/cancel", "02">>,
               <<"/complete", "x">>, <<"/cancel", "1", "2">>}

Init ==
    /\ users = (1 :> RegisteredUser(<<"Alice">>, <<"12">>))
               @@ (2 :> ResetUser(RegisteredUser(<<"Bob">>, <<"5">>)))
    /\ admins = <<3, 4>>
    /\ orders = << >>
    /\ fsm = [a \in Actors |-> "none"]
    /\ data = [a \in Actors |-> << >>]
    /\ btn = [a \in Actors |-> SentButtons]
    /\ now = 0
    /\ out = << >>
    /\ ran = "none"
    /\ tasks = {}

Next ==
    \/ \E a \in Actors : \E cb \in btn[a] : process_order(a, cb)
    \/ \E a \in Actors, text \in OrderTexts : handle_order_action(a, text)
    \/ \E a \in Actors, text \in OrderTexts : show_search_options(a, text)
    \/ \E a \in Actors : \E cb \in btn[a] : process_exit_search(a, cb)
    \/ Tick

Spec == Init /\ [][Next]_vars

----------------------------------------------------------------------------
\* Concurrent handling.  The dispatcher runs every update as its own task on
\* one event loop: a handler runs without interruption from one await of a
\* network call to the next (the store calls are synchronous).  A suspended
\* run is a record of tasks; pc names the await it is suspended at.

MaxTasks == 2

\* a number no suspended run has: two runs of one handler for the same actor
\* and input are two tasks of the event loop
FreshNo == CHOOSE n \in 1..MaxTasks : \A t \in tasks : t.no # n

Task(handler, a, inp, pc, id, rest) ==
    [no |-> FreshNo, handler |-> handler, actor |-> a, inp |-> inp, pc |-> pc,
     id |-> id, rest |-> rest]

\* process_order up to its first await: the guard, the commit of the order and
\* the query of the admins in notify_admins
PlaceOrderBegin(a, cb) ==
    /\ RouteCallback(cb) = "process_order"
    /\ Cardinality(tasks) < MaxTasks
    /\ LET g == GuardOutcome(a, TRUE) IN
       IF ~GuardAdmits(g) THEN GuardRejects(a, g)
       ELSE /\ ran' = "process_order"
            /\ IF CanOrder(a, cb[2])
               THEN LET order == NewOrder(a, FindSong(cb[2])[1]) IN
                    /\ Len(orders) < MaxOrders
                    /\ orders' = Append(orders, order)
                    /\ tasks' = tasks \cup
                          {Task("process_order", a, cb, "notify", order.id, admins)}
                    /\ out' = << >>
               ELSE /\ out' = << Msg(a, "order_error", 0, Null) >>
                    /\ UNCHANGED <<orders, tasks>>
            /\ UNCHANGED <<users, admins, fsm, data, btn, now>>

OrderById(order_id) == orders[CHOOSE i \in OrderIndex(order_id) : TRUE]

\* one bot.send_message of the loop of notify_admins returns or raises
NotifyStep(t) ==
    /\ t \in tasks /\ t.handler = "process_order" /\ t.pc = "notify"
    /\ t.rest # << >>
    /\ \E failing \in {{}, {Head(t.rest)}} :
       LET sends == notify_admins(<< Head(t.rest) >>, OrderById(t.id),
                                  users[t.actor].table_number, failing)
           rest == IF failing = {} THEN Tail(t.rest) ELSE << >>
       IN  /\ out' = sends
           /\ tasks' = (tasks \ {t}) \cup
                 {[t EXCEPT !.rest = rest,
                            !.pc = IF NotifyRaises(sends) THEN "error" ELSE "notify"]}
    /\ ran' = "process_order"
    /\ UNCHANGED <<users, admins, orders, fsm, data, btn, now>>

\* the reply to the user and set_state(ready_to_search)
PlaceOrderFinish(t) ==
    /\ t \in tasks /\ t.handler = "process_order"
    /\ \/ /\ t.pc = "notify" /\ t.rest = << >>
          /\ out' = << Msg(t.actor, "order_sent", t.id, Null) >>
          /\ btn' = [btn EXCEPT ![t.actor] = @ \cup SearchTypeButtons]
          /\ fsm' = [fsm EXCEPT ![t.actor] = "ready_to_search"]
       \/ /\ t.pc = "error"
          /\ out' = << Msg(t.actor, "order_error", 0, Null) >>
          /\ UNCHANGED <<fsm, btn>>
    /\ tasks' = tasks \ {t}
    /\ ran' = "process_order"
    /\ UNCHANGED <<users, admins, orders, data, now>>

\* handle_order_action up to its first await: from the admin check to the
\* commit (or to the refusal); the reply is what the run is suspended at
ResolveBegin(a, text) ==
    /\ RouteMessage(fsm[a], text) = "handle_order_action"
    /\ Cardinality(tasks) < MaxTasks
    /\ ran' = "handle_order_action"
    /\ out' = << >>
    /\ IF ~IsAdminForOrders(a)
       THEN /\ tasks' = tasks \cup {Task("handle_order_action", a, text, "admin_only", 0, << >>)}
            /\ UNCHANGED orders
       ELSE IF Len(text) # 2 \/ ~IsIntLiteral(text[2])
       THEN /\ tasks' = tasks \cup {Task("handle_order_action", a, text, "bad_format", 0, << >>)}
            /\ UNCHANGED orders
       ELSE LET order_id == IntLiteral[text[2]] IN
            IF OrderIndex(order_id) = {}
            THEN /\ tasks' = tasks \cup
                       {Task("handle_order_action", a, text, "order_not_found", order_id, << >>)}
                 /\ UNCHANGED orders
            ELSE LET i == CHOOSE i \in OrderIndex(order_id) : TRUE
                     order == orders[i]
                 IN  IF AlreadyProcessed(order)
                     THEN /\ tasks' = tasks \cup
                                {Task("handle_order_action", a, text, "already_processed",
                                      order_id, <<order.status>>)}
                          /\ UNCHANGED orders
                     ELSE /\ orders' = [orders EXCEPT ![i] = ResolveOrder(order, text[1])]
                          /\ tasks' = tasks \cup
                                {Task("handle_order_action", a, text, "order_resolved",
                                      order_id, <<ResolveOrder(order, text[1]).status>>)}
    /\ UNCHANGED <<users, admins, fsm, data, btn, now>>

\* the reply to the admin has been sent; a refusal ends the run
ResolveReply(t) ==
    /\ t \in tasks /\ t.handler = "handle_order_action" /\ t.pc # "notify_owner"
    /\ out' = << Msg(t.actor, t.pc, t.id, t.rest) >>
    /\ tasks' = IF t.pc = "order_resolved"
                THEN (tasks \ {t}) \cup {[t EXCEPT !.pc = "notify_owner"]}
                ELSE tasks \ {t}
    /\ ran' = "handle_order_action"
    /\ UNCHANGED <<users, admins, orders, fsm, data, btn, now>>

\* the notification to the owner returns or raises
ResolveNotify(t) ==
    /\ t \in tasks /\ t.handler = "handle_order_action" /\ t.pc = "notify_owner"
    /\ \E failing \in {{}, {OrderById(t.id).user_id}} :
          out' = OwnerNotice(OrderById(t.id), failing)
                 \o (IF failing # {}
                     THEN << Msg(t.actor, "owner_not_notified", t.id, Null) >>
                     ELSE << >>)
    /\ tasks' = tasks \ {t}
    /\ ran' = "handle_order_action"
    /\ UNCHANGED <<users, admins, orders, fsm, data, btn, now>>

ResolveTexts == {<<"/complete", "1">>, <<"/cancel", "1">>, <<"/cancel", "02">>}

\* Both users are registered; actors 3 and 4 are admins.
InitConc ==
    /\ users = (1 :> RegisteredUser(<<"Alice">>, <<"12">>))
               @@ (2 :> RegisteredUser(<<"Bob">>, <<"5">>))
    /\ admins = <<3, 4>>
    /\ orders = << >>
    /\ fsm = [a \in Actors |-> "none"]
    /\ data = [a \in Actors |-> << >>]
    /\ btn = [a \in Actors |-> SentButtons]
    /\ now = 0
    /\ out = << >>
    /\ ran = "none"
    /\ tasks = {}

NextConc ==
    \/ \E a \in Actors : \E cb \in btn[a] : PlaceOrderBegin(a, cb)
    \/ \E t \in tasks : NotifyStep(t)
    \/ \E t \in tasks : PlaceOrderFinish(t)
    \/ \E a \in Actors, text \in ResolveTexts : ResolveBegin(a, text)
    \/ \E t \in tasks : ResolveReply(t)
    \/ \E t \in tasks : ResolveNotify(t)
    \/ \E a \in Actors, text \in ResolveTexts : show_search_options(a, text)

SpecConc == InitConc /\ [][NextConc]_vars

----------------------------------------------------------------------------
\* Registration, the guard and the conversation of one user.  The process
\* starts on a store in which actor 4 is a registered user with two pending
\* orders and actor 3 is the only admin.  Actor 1 is unseen: it sends any of
\* RegTexts and presses any button it has been sent.  The admin cancels
\* order 1.

RegTexts == {T_start, T_reset, T_history, T_orders, <<"Alice">>, Null,
             <<"/complete", "1">>, <<"/cancel", "2">>}

PendingOrder(id, owner, song) ==
    [id |-> id, user_id |-> owner, song_id |-> song.id, song_title |-> song.title,
     song_artist |-> song.artist, has_backing |-> song.has_backing,
     status |-> "pending", ordered_at |-> 0, completed_at |-> Null]

InitReg ==
    /\ users = (4 :> RegisteredUser(<<"Dan">>, <<"7">>))
    /\ admins = <<3>>
    /\ orders = << PendingOrder(1, 4, SONGS[1]), PendingOrder(2, 4, SONGS[2]) >>
    /\ fsm = [a \in Actors |-> "none"]
    /\ data = [a \in Actors |-> << >>]
    /\ btn = [a \in Actors |-> {}]
    /\ now = 0
    /\ out = << >>
    /\ ran = "none"
    /\ tasks = {}

\* the handler the dispatcher selects for a message
Message(a, text) ==
    \/ start_command(a, text)
    \/ show_user_history(a, text)
    \/ reset_command(a, text)
    \/ process_name(a, text)
    \/ process_table(a, text)
    \/ show_search_options(a, text)
    \/ process_artist_search(a, text)
    \/ process_title_search(a, text)
    \/ process_free_search(a, text)
    \/ list_orders(a, text)
    \/ handle_order_action(a, text)
    \/ handle_unknown_message(a, text)

\* the handler the dispatcher selects for a button press
Callback(a, cb) ==
    \/ process_search_type(a, cb)
    \/ process_song_selection(a, cb)
    \/ process_order(a, cb)
    \/ process_find_another(a, cb)
    \/ process_pagination(a, cb)
    \/ process_ignore(a, cb)
    \/ process_exit_search(a, cb)

NextReg ==
    \/ \E text \in RegTexts : Message(1, text)
    \/ \E cb \in btn[1] : Callback(1, cb)
    \/ handle_order_action(3, <<"/cancel", "1">>)
    \/ Tick

SpecReg == InitReg /\ [][NextReg]_vars

----------------------------------------------------------------------------
\* An admin that also has a User row.  The process starts on a store in
\* which actor 3 registered as a user at hour 0 (and may have sent /reset
\* since) before it was enrolled as the only admin, and actor 4 is a
\* registered user with two pending orders.  Actor 3 sends any of AdminTexts
\* and presses any button it has been sent.

AdminTexts == {T_start, T_reset, T_history, T_orders, T_search, T_new_admin,
               ADMIN_PASSWORD, <<"/complete", "1">>}

InitAdmin ==
    /\ \E u \in {RegisteredUser(<<"Carol">>, <<"9">>),
                 ResetUser(RegisteredUser(<<"Carol">>, <<"9">>))} :
          users = (3 :> u) @@ (4 :> RegisteredUser(<<"Dan">>, <<"7">>))
    /\ admins = <<3>>
    /\ orders = << PendingOrder(1, 4, SONGS[1]), PendingOrder(2, 4, SONGS[2]) >>
    /\ fsm = [a \in Actors |-> "none"]
    /\ data = [a \in Actors |-> << >>]
    /\ btn = [a \in Actors |-> {}]
    /\ now = 0
    /\ out = << >>
    /\ ran = "none"
    /\ tasks = {}

\* the handler the dispatcher selects for a message of an admin (an admin is
\* never in waiting_for_name or waiting_for_table)
AdminMessage(a, text) ==
    \/ start_command(a, text)
    \/ show_user_history(a, text)
    \/ reset_command(a, text)
    \/ new_admin_command(a, text)
    \/ process_admin_password(a, text)
    \/ show_search_options(a, text)
    \/ process_artist_search(a, text)
    \/ process_title_search(a, text)
    \/ process_free_search(a, text)
    \/ admin_search_command(a, text)
    \/ list_orders(a, text)
    \/ handle_order_action(a, text)
    \/ handle_unknown_message(a, text)

NextAdmin ==
    \/ \E text \in AdminTexts : AdminMessage(3, text)
    \/ \E cb \in btn[3] : Callback(3, cb)
    \/ Tick

SpecAdmin == InitAdmin /\ [][NextAdmin]_vars

----------------------------------------------------------------------------
\* Browsing a result list.  Actor 1 is a registered user whose search has
\* just returned N items, 1 <= N <= MaxResults: the list is cached and its
\* first page has been sent.  Actor 1 presses any page, indicator or exit
\* button it has been sent, and may search by title again.

MaxResults == 25

\* the items 1..n of a result list
Results(n) == [i \in 1..n |-> i]

InitPage ==
    /\ users = (1 :> RegisteredUser(<<"Alice">>, <<"12">>))
    /\ admins = <<3>>
    /\ orders = << >>
    /\ \E n \in 1..MaxResults :
          /\ data = [a \in Actors |-> IF a = 1 THEN Results(n) ELSE << >>]
          /\ btn = [a \in Actors |->
                       IF a = 1 THEN Range(create_song_buttons(Results(n), 0)) ELSE {}]
          /\ out = << Msg(1, "results", n, Null) >>
    /\ fsm = [a \in Actors |-> IF a = 1 THEN "waiting_for_title" ELSE "none"]
    /\ now = 0
    /\ ran = "process_title_search"
    /\ tasks = {}

NextPage ==
    \/ \E cb \in btn[1] : process_pagination(1, cb)
    \/ process_title_search(1, <<"rolling">>)
    \/ \E cb \in btn[1] : process_ignore(1, cb)
    \/ \E cb \in btn[1] : process_exit_search(1, cb)

SpecPage == InitPage /\ [][NextPage]_vars

----------------------------------------------------------------------------
\* Enrolment of admins.  The process starts on a store in which actor 1 is a
\* registered user and actor 3 the only admin.  Both send any of EnrolTexts.

EnrolTexts == {T_start, T_new_admin, ADMIN_PASSWORD, <<"guess">>, Null}

InitEnrol ==
    /\ users = (1 :> RegisteredUser(<<"Alice">>, <<"12">>))
    /\ admins = <<3>>
    /\ orders = << >>
    /\ fsm = [a \in Actors |-> "none"]
    /\ data = [a \in Actors |-> << >>]
    /\ btn = [a \in Actors |-> {}]
    /\ now = 0
    /\ out = << >>
    /\ ran = "none"
    /\ tasks = {}

\* the handler the dispatcher selects for these texts of a registered user or
\* an admin
EnrolMessage(a, text) ==
    \/ start_command(a, text)
    \/ new_admin_command(a, text)
    \/ process_admin_password(a, text)
    \/ show_search_options(a, text)
    \/ handle_unknown_message(a, text)

NextEnrol ==
    \/ \E a \in {1, 3}, text \in EnrolTexts : EnrolMessage(a, text)
    \/ Tick

SpecEnrol == InitEnrol /\ [][NextEnrol]_vars

----------------------------------------------------------------------------
\* A first visit.  The process starts on a store with two admins and no user
\* and no order; actor 1 writes to the bot and presses the buttons it was
\* sent, and may reset its registration.  No time passes, so the registration
\* made here does not expire.

JourneyTexts == {T_start, T_reset, <<"Alice">>, <<"12">>}

InitJourney ==
    /\ users = << >>
    /\ admins = <<3, 4>>
    /\ orders = << >>
    /\ fsm = [a \in Actors |-> "none"]
    /\ data = [a \in Actors |-> << >>]
    /\ btn = [a \in Actors |-> {}]
    /\ now = 0
    /\ out = << >>
    /\ ran = "none"
    /\ tasks = {}

\* the handler the dispatcher selects for one of the messages of the visit
JourneyMessage(a, text) ==
    \/ start_command(a, text)
    \/ reset_command(a, text)
    \/ process_name(a, text)
    \/ process_table(a, text)
    \/ show_search_options(a, text)
    \/ process_artist_search(a, text)
    \/ process_title_search(a, text)
    \/ process_free_search(a, text)
    \/ handle_unknown_message(a, text)

\* the handler the dispatcher selects for one of the buttons of the visit
JourneyCallback(a, cb) ==
    \/ process_search_type(a, cb)
    \/ process_song_selection(a, cb)
    \/ process_order(a, cb)
    \/ process_find_another(a, cb)
    \/ process_ignore(a, cb)
    \/ process_exit_search(a, cb)

NextJourney ==
    \/ \E text \in JourneyTexts : JourneyMessage(1, text)
    \/ \E cb \in btn[1] : JourneyCallback(1, cb)

SpecJourney == InitJourney /\ [][NextJourney]_vars

----------------------------------------------------------------------------
\* Refusals.  The process starts on a store in which actor 1 is a registered
\* user and actors 3 and 4 are admins without a User row; admin 3 has
\* searched by title and selected song 42.  Actor 1 and the unseen actor 2
\* send any of RefuseTexts, actor 1 presses any button it has been sent,
\* admin 3 presses its buttons and admin 4 sends the order commands.

RefuseTexts == {T_search, T_orders, <<"/complete", "1">>, <<"/cancel", "x">>,
                <<"rolling">>}

InitRefuse ==
    /\ users = (1 :> RegisteredUser(<<"Alice">>, <<"12">>))
    /\ admins = <<3, 4>>
    /\ orders = << >>
    /\ fsm = [a \in Actors |-> IF a = 3 THEN "waiting_for_title" ELSE "none"]
    /\ data = [a \in Actors |-> IF a = 3 THEN <<42, 99>> ELSE << >>]
    /\ btn = [a \in Actors |->
                 IF a = 3 THEN SearchTypeButtons \cup OrderButtons("42")
                               \cup Range(create_song_buttons(<<42, 99>>, 0))
                 ELSE {}]
    /\ now = 0
    /\ out = << >>
    /\ ran = "none"
    /\ tasks = {}

\* the handler the dispatcher selects for a message of a user that is past
\* registration, or of an actor without a row
RefuseMessage(a, text) ==
    \/ show_search_options(a, text)
    \/ process_artist_search(a, text)
    \/ process_title_search(a, text)
    \/ process_free_search(a, text)
    \/ admin_search_command(a, text)
    \/ list_orders(a, text)
    \/ handle_order_action(a, text)
    \/ handle_unknown_message(a, text)

NextRefuse ==
    \/ \E a \in {1, 2}, text \in RefuseTexts : RefuseMessage(a, text)
    \/ \E cb \in btn[1] : JourneyCallback(1, cb)
    \/ \E cb \in btn[3] : process_order(3, cb)
    \/ \E text \in OrderTexts : handle_order_action(4, text)

SpecRefuse == InitRefuse /\ [][NextRefuse]_vars

----------------------------------------------------------------------------
\* The report of the resolved orders.  The process starts on a store in which
\* users 1 and 2 registered at hour 0 and each placed an order, and actor 3 is
\* the admin.  The admin resolves the orders and asks for the report; user 1
\* resets its registration or asks for the report; time passes.

ReportTexts == {T_completed, <<"/complete", "1">>, <<"/cancel", "2">>}

InitReport ==
    /\ users = (1 :> RegisteredUser(<<"Alice">>, <<"12">>))
               @@ (2 :> RegisteredUser(<<"Bob">>, <<"5">>))
    /\ admins = <<3>>
    /\ orders = << PendingOrder(1, 1, SONGS[1]), PendingOrder(2, 2, SONGS[2]) >>
    /\ fsm = [a \in Actors |-> "none"]
    /\ data = [a \in Actors |-> << >>]
    /\ btn = [a \in Actors |-> {}]
    /\ now = 0
    /\ out = << >>
    /\ ran = "none"
    /\ tasks = {}

NextReport ==
    \/ \E a \in {1, 3}, text \in ReportTexts : handle_order_action(a, text)
    \/ \E a \in {1, 3}, text \in ReportTexts : list_completed_orders(a, text)
    \/ \E a \in {1, 2} : reset_command(a, T_reset)
    \/ Tick

SpecReport == InitReport /\ [][NextReport]_vars

----------------------------------------------------------------------------
\* Ways out.  The process starts on a store in which actor 4 is a registered
\* user with two pending orders and actor 3 is the only admin.  Actor 1 is
\* unseen: it sends any of RecoverTexts and presses any button it has been
\* sent.  The admin sends /search, /new_admin, a text or /complete_1.  Time
\* passes.

RecoverTexts == {T_start, T_reset, T_history, T_new_admin, <<"Alice">>}

RecoverAdminTexts == {T_search, T_new_admin, <<"Alice">>, <<"/complete", "1">>}

\* the handler the dispatcher selects for one of these messages
RecoverMessage(a, text) ==
    \/ start_command(a, text)
    \/ show_user_history(a, text)
    \/ reset_command(a, text)
    \/ new_admin_command(a, text)
    \/ process_admin_password(a, text)
    \/ process_name(a, text)
    \/ process_table(a, text)
    \/ show_search_options(a, text)
    \/ process_artist_search(a, text)
    \/ process_title_search(a, text)
    \/ process_free_search(a, text)
    \/ admin_search_command(a, text)
    \/ handle_order_action(a, text)
    \/ handle_unknown_message(a, text)

NextRecover ==
    \/ \E text \in RecoverTexts : RecoverMessage(1, text)
    \/ \E text \in RecoverAdminTexts : RecoverMessage(3, text)
    \/ \E cb \in btn[1] : Callback(1, cb)
    \/ Tick

SpecRecover == InitReg /\ [][NextRecover]_vars

----------------------------------------------------------------------------
\* Claims checked under Spec

\* C1: an order's status only ever changes from pending to completed or from
\* pending to cancelled, and no order row disappears; a completed or cancelled
\* order keeps its status whatever any admin sends afterwards.
C1_StatusOneWay ==
    [][/\ Len(orders') >= Len(orders)
       /\ \A i \in 1..Len(orders) :
             orders'[i].status # orders[i].status
                => /\ orders[i].status = "pending"
                   /\ orders'[i].status \in {"completed", "cancelled"}]_vars

\* a cancelled order for which an admin's later command was answered
\* "already processed"
C1_Witness ==
    /\ ran = "handle_order_action"
    /\ \E i \in 1..Len(orders) :
          /\ orders[i].status = "cancelled"
          /\ Len(out) = 1
          /\ out[1].kind = "already_processed"
          /\ out[1].id = orders[i].id

\* C3: for every order, completed_at is set exactly when the status is not pending.
C3_CompletedAtIffResolved ==
    \A i \in 1..Len(orders) :
        (orders[i].completed_at # Null) <=> (orders[i].status # "pending")

\* a resolved order beside a pending one
C3_Witness ==
    /\ Len(orders) = 2
    /\ orders[1].status = "completed" /\ orders[1].completed_at = Some(TickHours)
    /\ orders[2].status = "pending"

\* C4: an admin's /complete_<id> or /cancel_<id> for an order that is no longer
\* pending is answered "already processed" with the order's current status and
\* writes nothing: status and completed_at stay as the first call set them.
C4_SecondResolveWritesNothing ==
    [][\A a \in Actors, text \in OrderTexts :
          ( /\ ran' = "handle_order_action"
            /\ handle_order_action(a, text)
            /\ IsAdmin(a)
            /\ Len(text) = 2 /\ IsIntLiteral(text[2])
            /\ \E i \in 1..Len(orders) : /\ orders[i].id = IntLiteral[text[2]]
                                         /\ orders[i].status # "pending" )
          => /\ orders' = orders
             /\ \E i \in 1..Len(orders) :
                   out' = << Msg(a, "already_processed", orders[i].id,
                                 <<orders[i].status>>) >>]_vars

\* a second command for an order completed at an earlier hour
C4_Witness ==
    /\ ran = "handle_order_action"
    /\ \E i \in 1..Len(orders), a \in Actors :
          /\ orders[i].status = "completed"
          /\ orders[i].completed_at # Null
          /\ orders[i].completed_at[1] < now
          /\ out = << Msg(a, "already_processed", orders[i].id, <<"completed">>) >>

C8_EveryAdminAttempted ==
    (ran = "process_order" /\ out # << >> /\ out[Len(out)].kind = "order_sent")
    => \A j \in 1..Len(admins) :
          \E i \in 1..Len(out) : out[i].kind = "new_order" /\ out[i].to = admins[j]

\* C9: when an admin notification fails during order placement, the order is
\* persisted with status pending, the user is sent the confirmation and nothing
\* else, and the session is in the search-mode menu state.
C9_NotificationFailureHidden ==
    (ran = "process_order" /\ \E i \in 1..Len(out) : ~out[i].ok)
    => /\ orders # << >>
       /\ LET o == orders[Len(orders)] IN
          /\ o.status = "pending"
          /\ out[Len(out)] = Msg(o.user_id, "order_sent", o.id, Null)
          /\ fsm[o.user_id] = "ready_to_search"
          /\ \A i \in 1..(Len(out) - 1) :
                out[i].kind = "new_order" /\ out[i].id = o.id /\ out[i].to # o.user_id

\* the notification to the first admin failed and the user was sent the confirmation
C9_Witness ==
    /\ ran = "process_order"
    /\ Len(out) = 2
    /\ ~out[1].ok /\ out[1].kind = "new_order"
    /\ out[2].kind = "order_sent" /\ out[2].ok

\* C23: when an admin sends /complete_<id> or /cancel_<id> for a pending order,
\* that order (and no other) gets the status completed or cancelled and
\* completed_at the current hour, and exactly one status notification is sent,
\* to the owner of the order, naming the order and its new status; this is so
\* whether or not the send of the notification fails.
C23_ResolveNotifiesOwner ==
    [][\A a \in Actors, text \in OrderTexts :
          \A i \in 1..Len(orders) :
             ( /\ handle_order_action(a, text)
               /\ IsAdmin(a)
               /\ Len(text) = 2 /\ IsIntLiteral(text[2])
               /\ orders[i].id = IntLiteral[text[2]]
               /\ orders[i].status = "pending" )
             => LET outcome == IF text[1] = "/complete" THEN "completed"
                               ELSE "cancelled"
                    notices == {j \in 1..Len(out') : out'[j].kind = "status_update"}
                IN  /\ orders' = [orders EXCEPT ![i].status = outcome,
                                                ![i].completed_at = Some(now)]
                    /\ Cardinality(notices) = 1
                    /\ \A j \in notices :
                          /\ out'[j].to = orders[i].user_id
                          /\ out'[j].id = orders[i].id
                          /\ out'[j].info = <<outcome>>]_vars

\* an order cancelled at a later hour whose notification to the owner failed
C23_Witness ==
    /\ ran = "handle_order_action"
    /\ \E i \in 1..Len(orders) :
          /\ orders[i].status = "cancelled"
          /\ orders[i].completed_at = Some(TickHours)
          /\ Len(out) = 3
          /\ out[2] = Failed(Msg(orders[i].user_id, "status_update", orders[i].id,
                                 <<"cancelled">>))
          /\ out[3].kind = "owner_not_notified"

\* the columns of an order that are written once, when it is created
Snapshot(order) ==
    <<order.id, order.user_id, order.song_id, order.song_title,
      order.song_artist, order.has_backing, order.ordered_at>>

\* C32: no order row disappears and no event changes the id, user, song id,
\* title, artist, accompaniment or creation time of an existing order; an
\* existing order differs after an event only when an admin's /complete_<id>
\* or /cancel_<id> naming that order was handled, and then no other order
\* differs and none was added.
C32_OrderFrame ==
    [][/\ Len(orders') >= Len(orders)
       /\ \A i \in 1..Len(orders) :
             /\ Snapshot(orders'[i]) = Snapshot(orders[i])
             /\ orders'[i] # orders[i]
                => /\ Len(orders') = Len(orders)
                   /\ \A j \in 1..Len(orders) : j # i => orders'[j] = orders[j]
                   /\ \E a \in Actors, text \in OrderTexts :
                         /\ IsAdmin(a)
                         /\ Len(text) = 2 /\ IsIntLiteral(text[2])
                         /\ IntLiteral[text[2]] = orders[i].id
                         /\ handle_order_action(a, text)]_vars

\* of two orders the second was cancelled by an admin and the first is still
\* pending
C32_Witness ==
    /\ ran = "handle_order_action"
    /\ Len(orders) = 2
    /\ orders[1].status = "pending" /\ orders[1].completed_at = Null
    /\ orders[2].status = "cancelled" /\ orders[2].completed_at # Null
    /\ out[1].kind = "order_resolved" /\ out[1].id = orders[2].id

\* the event before this one was the press of cb by actor a, and it created
\* an order
JustOrdered(a, cb) ==
    /\ RouteCallback(cb) = "process_order"
    /\ ran = "process_order"
    /\ out # << >>
    /\ out[Len(out)].to = a /\ out[Len(out)].kind = "order_sent"
    /\ \E i \in 1..Len(orders) :
          /\ orders[i].id = out[Len(out)].id
          /\ orders[i].user_id = a
          /\ StrOfInt[orders[i].song_id] = cb[2]

\* C38: when the press of an order button that has just created an order is
\* delivered once more, no second order is created and no admin is notified
\* again.
C38_ConfirmIdempotent ==
    [][\A a \in Actors : \A cb \in btn[a] :
          (JustOrdered(a, cb) /\ process_order(a, cb))
          => /\ orders' = orders
             /\ \A j \in 1..Len(out') : out'[j].kind # "new_order"]_vars

----------------------------------------------------------------------------
\* Claims checked under SpecReg

\* C5: for an actor with no Admin row, a /complete_<id> or /cancel_<id> message
\* sent in any conversation state changes no order: no status, no completed_at,
\* no row added or removed.
C5_NonAdminNeverResolves ==
    [][\/ /\ Len(orders') = Len(orders)
          /\ \A i \in 1..Len(orders) :
                /\ orders'[i].status = orders[i].status
                /\ orders'[i].completed_at = orders[i].completed_at
       \/ \A a \in Actors, text \in RegTexts :
             ~(StartsWithOrderAction(text) /\ ~IsAdmin(a) /\ Message(a, text))]_vars

\* a registered non-admin outside any conversation state was refused, and the
\* pending order it named is still pending
C5_Witness ==
    /\ ~IsAdmin(1) /\ HasUser(1) /\ users[1].is_registered
    /\ fsm[1] = "none"
    /\ ran = "handle_order_action"
    /\ out = << Msg(1, "admin_only", 0, Null) >>
    /\ orders[2].status = "pending" /\ orders[2].completed_at = Null

\* the handlers wrapped by require_registration
GatedMessage(a, text) ==
    \/ show_user_history(a, text)
    \/ reset_command(a, text)
    \/ list_orders(a, text)
    \/ process_artist_search(a, text)
    \/ process_title_search(a, text)
    \/ process_free_search(a, text)

GatedCallback(a, cb) ==
    \/ process_search_type(a, cb)
    \/ process_song_selection(a, cb)
    \/ process_order(a, cb)
    \/ process_find_another(a, cb)

\* C10: when an actor that is neither an admin nor a registered user (no User
\* row, or is_registered false) triggers a handler wrapped by
\* require_registration, the body does not run, the actor is told it is not
\* registered, and users, admins, orders and every conversation session stay
\* as they were.
C10_UnregisteredShortCircuit ==
    [][\A a \in Actors :
          ( /\ ~IsAdmin(a)
            /\ (~HasUser(a) \/ ~users[a].is_registered)
            /\ \/ \E text \in RegTexts : GatedMessage(a, text)
               \/ \E cb \in btn[a] : GatedCallback(a, cb) )
          => /\ ran' = "none"
             /\ out' = << Msg(a, "not_registered", 0, Null) >>
             /\ UNCHANGED <<users, admins, orders, fsm, data>>]_vars

\* an actor whose row is no longer registered, still inside a search
\* conversation with cached results, has just been refused
C10_Witness ==
    /\ ~IsAdmin(1) /\ HasUser(1) /\ ~users[1].is_registered
    /\ fsm[1] = "waiting_for_artist"
    /\ data[1] # << >>
    /\ ran = "none"
    /\ out = << Msg(1, "not_registered", 0, Null) >>

\* a User row with every registration field cleared
ClearedUser ==
    [display_name |-> Null, table_number |-> Null,
     is_registered |-> FALSE, registered_at |-> Null]

C12_ExpiredGuardStopsHandler ==
    [][\A a \in Actors :
          ( /\ HasUser(a) /\ ~IsAdmin(a) /\ users[a].is_registered
            /\ IsExpired(users[a])
            /\ \/ \E text \in RegTexts : GatedMessage(a, text)
               \/ \E cb \in btn[a] : GatedCallback(a, cb) )
          => /\ ran' = "none"
             /\ fsm'[a] = "none" /\ data'[a] = << >>
             /\ orders' = orders]_vars

\* C14: after name and table entry the user is registered, and a later /start
\* within 16 hours of the registration shows the search-mode menu and leaves
\* the session in choosing-search-mode, never in awaiting-name or
\* awaiting-table.
C14_StartShowsMenu ==
    [][\A a \in Actors :
          ( /\ HasUser(a) /\ ~IsAdmin(a)
            /\ users[a].is_registered
            /\ users[a].display_name # Null /\ users[a].table_number # Null
            /\ users[a].registered_at # Null /\ ~IsExpired(users[a])
            /\ start_command(a, T_start) )
          => /\ users'[a].is_registered
             /\ fsm'[a] = "ready_to_search"
             /\ \E i \in 1..Len(out') : out'[i].kind \in {"search_menu", "hello_search_menu"}]_vars

\* the commands whose handlers are registered in front of the state handlers
EarlyCommands == {T_start, T_history, T_reset, T_new_admin}

\* C15: /reset by a registered non-admin user leaves the user unregistered
\* with no conversation state; from there /start prompts for the name
\* (awaiting-name), as it does for an actor without a User row; a text that is
\* not a command then gets the table prompt (awaiting-table), and a further
\* one the search-mode menu (choosing-search-mode).
C15_ResetThenStart ==
    [][\A a \in Actors :
          ~IsAdmin(a)
          => /\ (HasUser(a) /\ users[a].is_registered /\ reset_command(a, T_reset))
                => /\ ~users'[a].is_registered
                   /\ fsm'[a] = "none"
             /\ ((~HasUser(a) \/ (~users[a].is_registered /\ fsm[a] = "none"))
                 /\ start_command(a, T_start))
                => /\ fsm'[a] = "waiting_for_name"
                   /\ out' = << Msg(a, IF HasUser(a) THEN "ask_name_again"
                                       ELSE "welcome_ask_name", 0, Null) >>
             /\ \A text \in RegTexts \ EarlyCommands :
                   /\ (HasUser(a) /\ fsm[a] = "waiting_for_name" /\ Message(a, text))
                      => /\ fsm'[a] = "waiting_for_table"
                         /\ out' = << Msg(a, "thanks_ask_table", 0, text) >>
                   /\ (HasUser(a) /\ fsm[a] = "waiting_for_table" /\ Message(a, text))
                      => /\ fsm'[a] = "ready_to_search"
                         /\ users'[a].is_registered
                         /\ out' = << Msg(a, "table_set_search_menu", 0, text) >>]_vars

\* a user who has sent /reset (registered_at is still set) and then /start
\* is asked for the name
C15_Witness ==
    /\ HasUser(1) /\ ~IsAdmin(1)
    /\ ~users[1].is_registered /\ users[1].registered_at # Null
    /\ fsm[1] = "waiting_for_name"
    /\ ran = "start_command"
    /\ out = << Msg(1, "ask_name_again", 0, Null) >>

\* C16 as stated: /reset sent by a non-admin user from any conversation state
\* leaves the user with display_name and table_number null, is_registered
\* false, the session cleared, and the User row present.
C16_Original ==
    [][\A a \in Actors :
          (HasUser(a) /\ ~IsAdmin(a) /\ reset_command(a, T_reset))
          => /\ HasUser(a)'
             /\ users'[a].display_name = Null /\ users'[a].table_number = Null
             /\ ~users'[a].is_registered
             /\ fsm'[a] = "none" /\ data'[a] = << >>]_vars

\* C16 amended: /reset sent by a non-admin user whose row has is_registered
\* true, from any conversation state, leaves the user with display_name and
\* table_number null, is_registered false, the session cleared (no
\* conversation state, no cached results), and the User row present; for a
\* user whose row has is_registered false the event changes neither the row
\* nor the session.
C16_ResetRegistered ==
    [][\A a \in Actors :
          (HasUser(a) /\ ~IsAdmin(a) /\ reset_command(a, T_reset))
          => IF users[a].is_registered
             THEN /\ HasUser(a)'
                  /\ users'[a].display_name = Null /\ users'[a].table_number = Null
                  /\ ~users'[a].is_registered
                  /\ fsm'[a] = "none" /\ data'[a] = << >>
             ELSE /\ users' = users /\ fsm' = fsm /\ data' = data]_vars

\* a user who had been sent a result list has sent /reset
C16_Witness ==
    /\ HasUser(1) /\ ~IsAdmin(1)
    /\ users[1] = ResetUser(users[1]) /\ users[1].registered_at # Null
    /\ fsm[1] = "none" /\ data[1] = << >>
    /\ <<"song", "42">> \in btn[1]
    /\ ran = "reset_command"
    /\ out = << Msg(1, "registration_reset", 0, Null) >>

\* C17: every User row with is_registered true has a display_name.
C17_RegisteredHasName ==
    \A a \in DOMAIN users : users[a].is_registered => users[a].display_name # Null

\* C29: a message of a known user that is no admin and for which no other
\* handler is registered (the user has no conversation state) changes no
\* User field and sets the state from the row: waiting_for_name with the name
\* prompt when is_registered is false, waiting_for_table with the table prompt
\* when the table is not set, ready_to_search with the search menu otherwise.
C29_StateRepair ==
    [][\A text \in RegTexts :
          (HasUser(1) /\ ~IsAdmin(1) /\ handle_unknown_message(1, text))
          => /\ users' = users
             /\ data' = data
             /\ Len(out') = 1
             /\ IF ~users[1].is_registered
                THEN /\ fsm'[1] = "waiting_for_name"
                     /\ out'[1].kind = "ask_name_again"
                ELSE IF users[1].table_number = Null
                THEN /\ fsm'[1] = "waiting_for_table"
                     /\ out'[1].kind = "ask_table"
                ELSE /\ fsm'[1] = "ready_to_search"
                     /\ out'[1].kind = "hello_search_menu"]_vars

\* a user with a name and no table, whose state was dropped, has been asked
\* for the table again
C29_Witness ==
    /\ ran = "handle_unknown_message"
    /\ HasUser(1) /\ users[1].is_registered /\ users[1].table_number = Null
    /\ out = << Msg(1, "ask_table", 0, Null) >>
    /\ fsm[1] = "waiting_for_table"

\* a message of an actor that has no User row, is no admin and has no
\* conversation state
UnseenSends(a, text) ==
    ~HasUser(a) /\ ~IsAdmin(a) /\ fsm[a] = "none" /\ Message(a, text)

GatedEvent(a) ==
    \/ \E text \in RegTexts : GatedMessage(a, text)
    \/ \E cb \in btn[a] : GatedCallback(a, cb)

\* C31: the guard writes at most the expiry reset, and a second evaluation
\* right after it writes nothing.  When the guard does not let the handler
\* run, the only row that can differ after the event is the row of the actor,
\* reset by the expiry, and no admin or order row differs.  After an event in
\* which the guard found the registration expired, the guard evaluated again
\* for that actor (for a handler with or without the FSM context) refuses the
\* actor as not registered, and leaves users as the first evaluation left
\* them.
C31_GuardIdempotent ==
    [][\A a \in Actors :
          (~IsAdmin(a) /\ HasUser(a))
          => \/ /\ ran' = "none"
                   => /\ users' \in {users, [users EXCEPT ![a] = ExpireUser(users[a])]}
                      /\ UNCHANGED <<admins, orders>>
                /\ (users[a].is_registered /\ IsExpired(users[a]))
                   => \A hasState \in BOOLEAN :
                         /\ GuardOutcome(a, hasState)' = "unregistered"
                         /\ ~GuardAdmits(GuardOutcome(a, hasState))'
                         /\ UsersAfterGuard(a, GuardOutcome(a, hasState))' = users'
                         /\ ~IsExpired(users[a])'
             \/ ~GatedEvent(a)]_vars

\* the guard found the registration expired at hour 17, and the next event of
\* the actor was refused as not registered with the row as the expiry left it
C31_Witness ==
    /\ now > ExpiryHours
    /\ HasUser(1) /\ users[1] = ClearedUser
    /\ ran = "none"
    /\ out = << Msg(1, "not_registered", 0, Null) >>

----------------------------------------------------------------------------
\* Claims checked under SpecConc

Outcome(text) == IF text[1] = "/complete" THEN "completed" ELSE "cancelled"

\* the runs of handle_order_action in flight whose write was accepted
Winners(order_id) ==
    {t \in tasks : /\ t.handler = "handle_order_action" /\ t.id = order_id
                   /\ t.pc \in {"order_resolved", "notify_owner"}}

\* C2: of the /complete_<id> and /cancel_<id> runs of admins that overlap on
\* one order, exactly one changes it: the order has the outcome of the run
\* whose write was accepted, and a run that begins while that one is still in
\* flight writes nothing and is answered "already processed".
C2_OneWinner ==
    /\ [](\A i \in 1..Len(orders) :
             /\ Cardinality(Winners(orders[i].id)) <= 1
             /\ \A t \in Winners(orders[i].id) : orders[i].status = Outcome(t.inp))
    /\ [][\A a \in Actors, text \in ResolveTexts :
             ( /\ ResolveBegin(a, text)
               /\ IsAdmin(a)
               /\ Winners(IntLiteral[text[2]]) # {} )
             => /\ orders' = orders
                /\ \E t \in tasks' \ tasks :
                      /\ t.actor = a /\ t.pc = "already_processed"
                      /\ t.rest = << OrderById(t.id).status >>]_vars

\* two admins' runs on order 1 in flight together: the /complete run has
\* written, the /cancel run is about to be answered "already processed"
C2_Witness ==
    \E t1, t2 \in tasks :
        /\ t1.handler = "handle_order_action" /\ t2.handler = "handle_order_action"
        /\ t1.actor # t2.actor
        /\ t1.inp = <<"/complete", "1">> /\ t1.pc = "order_resolved"
        /\ t2.inp = <<"/cancel", "1">> /\ t2.pc = "already_processed"
        /\ OrderById(1).status = "completed"

\* the runs of process_order in flight
Placing == {t \in tasks : t.handler = "process_order"}

\* C7: order ids are pairwise distinct; a confirm-order run of a registered
\* user for a catalog item creates its order also while another user's run is
\* in flight, and every run in flight has an order row of its own.
C7_DistinctOrderIds ==
    /\ [](/\ \A i, j \in 1..Len(orders) : orders[i].id = orders[j].id => i = j
          /\ \A t \in Placing : \E i \in 1..Len(orders) :
                orders[i].id = t.id /\ orders[i].user_id = t.actor
          /\ \A t1, t2 \in Placing : t1 # t2 => t1.id # t2.id)
    /\ [][\A a \in DOMAIN users :
             \A cb \in {c \in btn[a] : RouteCallback(c) = "process_order"} :
             ( /\ PlaceOrderBegin(a, cb)
               /\ cb[2] = "42"
               /\ \E t \in Placing : t.actor # a )
             => /\ Len(orders') = Len(orders) + 1
                /\ orders'[Len(orders')].user_id = a]_vars

\* the runs of two different users suspended in notify_admins, each with its order
C7_Witness ==
    \E t1, t2 \in Placing :
        /\ t1.actor # t2.actor
        /\ t1.pc = "notify" /\ t2.pc = "notify"
        /\ t1.id # t2.id
        /\ Len(orders) = 2

\* C24: the handling of an event of an actor is never suspended while another
\* event of the same actor is being handled: no two suspended runs belong to
\* one actor, and a run of an actor's event begins only when no run of that
\* actor is suspended.
C24_ActorSerialized ==
    \A t1, t2 \in tasks : t1.actor = t2.actor => t1 = t2

\* C37: when the notification of the resolution of an order is sent to its
\* owner, the run of process_order that created the order has already sent
\* the owner the "order sent" reply: it is no longer suspended.
C37_ConfirmBeforeResolution ==
    \A j \in 1..Len(out) :
        out[j].kind = "status_update"
        => ~\E p \in tasks : p.handler = "process_order" /\ p.id = out[j].id

----------------------------------------------------------------------------
\* Claims checked under SpecAdmin

\* the handlers wrapped by require_registration that an admin's message reaches
AdminGatedMessage(a, text) ==
    \/ show_user_history(a, text)
    \/ reset_command(a, text)
    \/ list_orders(a, text)
    \/ process_artist_search(a, text)
    \/ process_title_search(a, text)
    \/ process_free_search(a, text)

\* C13: for an actor with an Admin row, whatever its User row (unregistered,
\* or registered more than 16 hours ago), every handler wrapped by
\* require_registration runs its body (the guard never answers "not
\* registered" or "registration expired"), no such event changes any User
\* row, and /reset changes no User row and no conversation session.
C13_AdminExempt ==
    [][\A a \in Actors :
          IsAdmin(a)
          => /\ ( \/ \E text \in AdminTexts : AdminGatedMessage(a, text)
                  \/ \E cb \in btn[a] : GatedCallback(a, cb) )
                => /\ ran' # "none"
                   /\ \A i \in 1..Len(out') :
                         out'[i].kind \notin {"not_registered", "registration_expired"}
                   /\ users' = users
             /\ reset_command(a, T_reset)
                => /\ users' = users /\ fsm' = fsm /\ data' = data
                   /\ out' = << Msg(a, "reset_not_for_admins", 0, Null) >>]_vars

\* an admin whose User row was registered more than 16 hours ago has sent
\* /reset from the search menu: the row and the session are as they were
C13_Witness ==
    /\ IsAdmin(3) /\ HasUser(3)
    /\ users[3].is_registered /\ IsExpired(users[3])
    /\ users[3].display_name = <<"Carol">>
    /\ fsm[3] = "ready_to_search"
    /\ ran = "reset_command"
    /\ out = << Msg(3, "reset_not_for_admins", 0, Null) >>

\* C19: whatever conversation state an admin is in, its /complete_<id> for a
\* pending order resolves that order.
C19_AdminCommandBypassesFsm ==
    [][\A a \in Actors :
          ( /\ IsAdmin(a)
            /\ orders[1].id = 1 /\ orders[1].status = "pending"
            /\ AdminMessage(a, <<"/complete", "1">>) )
          => /\ orders'[1].status = "completed"
             /\ orders'[1].completed_at = Some(now)]_vars

----------------------------------------------------------------------------
\* Claims checked under SpecPage

\* the song buttons of a keyboard, in order
SongRows(kb) == SelectSeq(kb, LAMBDA b : b[1] = "song")

\* C18: for a cached result list of N items, page p of it lists exactly the
\* items 10p+1 .. min(10p+10, N), in order; a button to page p-1 is present
\* exactly when p > 0 and a button to page p+1 exactly when 10(p+1) < N.  For
\* N = 25, page 0 has items 1-10 and the next button only, and page 2 has
\* items 21-25 and the previous button only.
C18_PageWindow ==
    (ran = "process_pagination" /\ Len(out) = 1 /\ out[1].kind = "page")
    => LET kb == out[1].info
           p == out[1].id
           N == Len(data[1])
           last == IF 10 * p + 10 < N THEN 10 * p + 10 ELSE N
       IN  /\ SongRows(kb) = [i \in 1..(last - 10 * p) |->
                                 <<"song", StrOfInt[data[1][10 * p + i]]>>]
           /\ (\E i \in 1..Len(kb) : kb[i] = <<"page", StrOfInt[p + 1]>>)
                 <=> (10 * (p + 1) < N)
           /\ (\E i \in 1..Len(kb) : kb[i][1] = "page" /\ kb[i] # <<"page", StrOfInt[p + 1]>>)
                 <=> (p > 0)
           /\ (p > 0) => \E i \in 1..Len(kb) : kb[i] = <<"page", StrOfInt[p - 1]>>
           /\ (N = 25 /\ p = 0)
                 => kb = [i \in 1..10 |-> <<"song", StrOfInt[i]>>]
                         \o << <<"page", "1">>, <<"ignore">>, <<"exit", "search">> >>
           /\ (N = 25 /\ p = 2)
                 => kb = [i \in 1..5 |-> <<"song", StrOfInt[20 + i]>>]
                         \o << <<"page", "1">>, <<"ignore">>, <<"exit", "search">> >>

\* the last page of a list of 25 items has been rendered
C18_Witness ==
    /\ Len(data[1]) = 25
    /\ ran = "process_pagination"
    /\ Len(out) = 1 /\ out[1].kind = "page" /\ out[1].id = 2
    /\ Len(SongRows(out[1].info)) = 5

\* C20: the exit button, pressed on any page of the results, discards the
\* cached results and leaves a non-admin in choosing-search-mode with the
\* search-mode menu shown, and an admin without a conversation state with the
\* summary of the admin commands shown.
C20_ExitReturnsToMenu ==
    [][\A a \in Actors :
          process_exit_search(a, <<"exit", "search">>)
          => /\ data'[a] = << >>
             /\ IF IsAdmin(a)
                THEN /\ fsm'[a] = "none"
                     /\ out' = << Msg(a, "search_finished_admin", 0, Null) >>
                ELSE /\ fsm'[a] = "ready_to_search"
                     /\ out' = << Msg(a, "search_finished_menu", 0, Null) >>]_vars

\* C36: a page rendered by page navigation has an index p with 0 <= p and
\* 10p < N, N the number of cached results, and lists at least one song.
C36_PageInRange ==
    (ran = "process_pagination" /\ Len(out) = 1 /\ out[1].kind = "page")
    => /\ out[1].id >= 0
       /\ 10 * out[1].id < Len(data[1])
       /\ Len(SongRows(out[1].info)) >= 1

----------------------------------------------------------------------------
\* Claims checked under SpecEnrol

\* C21: the Admin rows change only by one row being added for an actor that
\* has none and that sends the correct password in the state /new_admin put
\* it in; a wrong password or a message without text adds no row, the correct
\* password of an enrolled actor adds no second row, and no row is ever
\* changed or removed.
C21_AdminEnrolment ==
    /\ [](\A i, j \in 1..Len(admins) : admins[i] = admins[j] => i = j)
    /\ [][/\ Len(admins') >= Len(admins)
          /\ SubSeq(admins', 1, Len(admins)) = admins
          /\ admins' # admins
                => \E a \in Actors :
                      /\ ~IsAdmin(a)
                      /\ fsm[a] = "waiting_for_admin_password"
                      /\ process_admin_password(a, ADMIN_PASSWORD)
                      /\ admins' = Append(admins, a)
          /\ \A a \in Actors, text \in EnrolTexts :
                (process_admin_password(a, text) /\ (text # ADMIN_PASSWORD \/ IsAdmin(a)))
                => admins' = admins]_vars

\* actor 1 has been enrolled beside actor 3
C21_Witness ==
    /\ admins = <<3, 1>>
    /\ ran = "process_admin_password"
    /\ out = << Msg(1, "admin_added", 0, Null) >>
    /\ fsm[1] = "none"

----------------------------------------------------------------------------
\* Claims checked under SpecJourney

\* the search service answers the free search with a non-empty list
FreeSearchFinds(a, text, found) ==
    /\ RouteMessage(fsm[a], text) = "process_free_search"
    /\ GuardAdmits(GuardOutcome(a, TRUE))
    /\ SearchBody(a, "process_free_search", TRUE, fetch_songs(TRUE, found),
                  "nothing_found")

\* C22: the first visit of actor 1, step by step, each step starting where the
\* one before it ends.  /start from an actor without a row creates the row
\* and asks the name; a name in waiting_for_name is stored and the table is
\* asked; table "12" in waiting_for_table is stored and the search menu is
\* sent; the free search button asks for the text; a free search that finds
\* songs 42 and 99 stores them and sends the list with a button for 42; the
\* button of song 42 sends the order button of 42; the order button of 42
\* appends exactly one order, pending, of actor 1 and song 42 with an unused
\* id, tells the actor it was sent and, when no send fails, every admin is
\* sent a notice of that order that names song 42 and the table of the user.
C22_FirstVisit ==
    [][ /\ (~HasUser(1) /\ start_command(1, T_start))
            => /\ users' = users @@ (1 :> NewUser)
               /\ out' = << Msg(1, "welcome_ask_name", 0, Null) >>
               /\ fsm'[1] = "waiting_for_name"
        /\ (fsm[1] = "waiting_for_name" /\ HasUser(1) /\ process_name(1, <<"Alice">>))
            => /\ users'[1].display_name = <<"Alice">>
               /\ out' = << Msg(1, "thanks_ask_table", 0, <<"Alice">>) >>
               /\ fsm'[1] = "waiting_for_table"
        /\ (fsm[1] = "waiting_for_table" /\ HasUser(1) /\ process_table(1, <<"12">>))
            => /\ users'[1].table_number = <<"12">>
               /\ users'[1].is_registered
               /\ out' = << Msg(1, "table_set_search_menu", 0, <<"12">>) >>
               /\ SearchTypeButtons \subseteq btn'[1]
               /\ fsm'[1] = "ready_to_search"
        /\ (process_search_type(1, <<"search", "free">>) /\ ran' = "process_search_type")
            => /\ out' = << Msg(1, "ask_free_text", 0, Null) >>
               /\ fsm'[1] = "waiting_for_free_search"
        /\ \A text \in JourneyTexts :
              FreeSearchFinds(1, text, <<42, 99>>)
              => /\ data'[1] = <<42, 99>>
                 /\ out' = << Msg(1, "results", 2, Null) >>
                 /\ <<"song", "42">> \in btn'[1]
        /\ (process_song_selection(1, <<"song", "42">>) /\ ran' = "process_song_selection")
            => /\ out' = << Msg(1, "song_selected", 0, <<"42">>) >>
               /\ <<"order", "42">> \in btn'[1]
        /\ (process_order(1, <<"order", "42">>) /\ ran' = "process_order")
            => /\ Len(orders') = Len(orders) + 1
               /\ SubSeq(orders', 1, Len(orders)) = orders
               /\ LET order == orders'[Len(orders')] IN
                  /\ order.status = "pending"
                  /\ order.user_id = 1
                  /\ order.song_id = 42
                  /\ \A i \in 1..Len(orders) : orders[i].id # order.id
                  /\ out'[Len(out')] = Msg(1, "order_sent", order.id, Null)
                  /\ (\A i \in 1..Len(out') : out'[i].ok)
                     => \A i \in 1..Len(admins) :
                           \E j \in 1..Len(out') :
                              out'[j] = Msg(admins[i], "new_order", order.id,
                                            <<"42">> \o users[1].table_number)
      ]_vars

\* the visit has ended: the only order is the pending order of actor 1 for
\* song 42, and both admins hold its notice with song 42 and table 12
C22_Witness ==
    /\ ran = "process_order"
    /\ Len(orders) = 1
    /\ orders[1].status = "pending" /\ orders[1].user_id = 1 /\ orders[1].song_id = 42
    /\ HasUser(1) /\ users[1].display_name = <<"Alice">>
    /\ users[1].table_number = <<"12">>
    /\ out = << Msg(3, "new_order", 1, <<"42", "12">>),
                Msg(4, "new_order", 1, <<"42", "12">>),
                Msg(1, "order_sent", 1, Null) >>

\* C26: a confirm that creates the order leaves the actor in ready_to_search
\* with no cached search results.
C26_ConfirmClearsResults ==
    [][\A cb \in btn[1] :
          (process_order(1, cb) /\ ran' = "process_order" /\ orders' # orders)
          => /\ fsm'[1] = "ready_to_search"
             /\ data'[1] = << >>]_vars

\* C27: the "find another" button leaves the actor in ready_to_search with no
\* cached search results.
C27_FindAnotherDiscards ==
    [][\A cb \in btn[1] :
          (process_find_another(1, cb) /\ ran' = "process_find_another")
          => /\ fsm'[1] = "ready_to_search"
             /\ data'[1] = << >>]_vars

\* a search by artist, by title or by free text whose call to the search
\* service fails or returns no song
SearchFails(a, text) ==
    /\ GuardAdmits(GuardOutcome(a, TRUE))
    /\ \E up \in BOOLEAN, found \in ResultLists :
          /\ ~up \/ found = << >>
          /\ \/ /\ RouteMessage(fsm[a], text) = "process_artist_search"
                /\ SearchBody(a, "process_artist_search", up,
                              DedupById(found \o found), "artist_not_found")
             \/ /\ RouteMessage(fsm[a], text) = "process_title_search"
                /\ SearchBody(a, "process_title_search", up, found, "song_not_found")
             \/ /\ RouteMessage(fsm[a], text) = "process_free_search"
                /\ SearchBody(a, "process_free_search", TRUE,
                              fetch_songs(up, found), "nothing_found")

\* C28: a search that fails or finds nothing leaves the actor in the search
\* state it was in (waiting_for_artist, waiting_for_title or
\* waiting_for_free_search) and leaves the cached results as they were.
C28_FailedSearchStays ==
    [][\A text \in JourneyTexts :
          SearchFails(1, text)
          => /\ fsm'[1] = fsm[1]
             /\ fsm[1] \in {"waiting_for_artist", "waiting_for_title",
                            "waiting_for_free_search"}
             /\ data' = data
             /\ Len(out') = 1
             /\ out'[1].kind \in {"search_error", "artist_not_found",
                                  "song_not_found", "nothing_found"}]_vars

\* after a search that found two songs, a free search found nothing: the two
\* songs are still cached and the actor is still asked for a free text
C28_Witness ==
    /\ ran = "process_free_search"
    /\ out = << Msg(1, "nothing_found", 0, Null) >>
    /\ fsm[1] = "waiting_for_free_search"
    /\ data[1] = <<42, 99>>

\* C34: whenever an order row is added, the user it belongs to has a
\* display_name and a table_number at that moment.
C34_OrderNeedsTable ==
    [][Len(orders') > Len(orders)
       => LET owner == orders'[Len(orders')].user_id IN
          /\ owner \in DOMAIN users
          /\ users[owner].display_name # Null
          /\ users[owner].table_number # Null]_vars

\* C35: a User row with is_registered false has no registered_at.
C35_ClearedHasNoTimestamp ==
    \A a \in DOMAIN users : ~users[a].is_registered => users[a].registered_at = Null

----------------------------------------------------------------------------
\* Claims checked under SpecRefuse

----------------------------------------------------------------------------
\* Claims checked under SpecReport

\* C33: /completed of an admin changes no row and no session, raises nothing,
\* and lists an order in exactly one table message, the one of the table of
\* its owner, exactly when the order is completed or cancelled and its
\* completed_at is at most 16 hours old.
C33_CompletedReport ==
    [][\A a \in Actors :
          (IsAdmin(a) /\ list_completed_orders(a, T_completed))
          => /\ UNCHANGED <<users, admins, orders, fsm, data>>
             /\ \A j \in 1..Len(out') : out'[j].kind # "completed_error"
             /\ \A i \in 1..Len(orders) :
                   LET listed == {j \in 1..Len(out') :
                                     /\ out'[j].kind = "table_report"
                                     /\ orders[i].id \in out'[j].info[2]}
                   IN  IF InReport(orders[i])
                       THEN /\ Cardinality(listed) = 1
                            /\ \A j \in listed :
                                  out'[j].info[1] = users[orders[i].user_id].table_number
                       ELSE listed = {}]_vars

----------------------------------------------------------------------------
\* Claims checked under SpecRecover

\* the actor is registered and is shown the search menu
InSearchMenu(a) ==
    HasUser(a) /\ users[a].is_registered /\ fsm[a] = "ready_to_search"

\* an upper bound of the number of messages the actor needs to get there
StepsToMenu(a) ==
    IF InSearchMenu(a) THEN 0
    ELSE IF fsm[a] = "waiting_for_table" THEN 1
    ELSE IF fsm[a] = "waiting_for_name" THEN 2
    ELSE IF fsm[a] = "none" THEN 3
    ELSE IF fsm[a] = "waiting_for_admin_password" THEN 4
    ELSE 5

\* an upper bound of the number of messages the admin needs to resolve the
\* order with this id
StepsToResolve(a, order_id) ==
    IF \A i \in 1..Len(orders) : orders[i].id = order_id => orders[i].status # "pending"
    THEN 0
    ELSE IF fsm[a] = "none" THEN 1
    ELSE IF fsm[a] = "waiting_for_admin_password" THEN 2
    ELSE 3

\* C39: no state is a dead end.  In every reachable state in which actor 1,
\* no admin, is not a registered user in ready_to_search, one of its own
\* messages brings it strictly nearer (by StepsToMenu) to being one; and in
\* every reachable state in which order 1 is pending, one of the admin's own
\* messages brings the admin strictly nearer (by StepsToResolve) to having
\* resolved it.  Both measures are natural numbers, so finitely many own
\* messages suffice.
C39_NoDeadEnd ==
    /\ (~IsAdmin(1) /\ StepsToMenu(1) > 0)
       => ENABLED (/\ \E text \in RecoverTexts : RecoverMessage(1, text)
                   /\ StepsToMenu(1)' < StepsToMenu(1))
    /\ (IsAdmin(3) /\ StepsToResolve(3, 1) > 0)
       => ENABLED (/\ \E text \in RecoverAdminTexts : RecoverMessage(3, text)
                   /\ StepsToResolve(3, 1)' < StepsToResolve(3, 1))

\* actor 1 is inside a search conversation with a row that is not registered
\* (the registration expired at hour 17), while the admin, with order 1
\* pending, is asked for the admin password
C39_Witness ==
    /\ HasUser(1) /\ ~users[1].is_registered
    /\ fsm[1] \in {"waiting_for_artist", "waiting_for_title", "waiting_for_free_search"}
    /\ fsm[3] = "waiting_for_admin_password"
    /\ orders[1].status = "pending"

\* an event of actor a
ActorEvent(a) ==
    \/ \E text \in RecoverTexts \cup RecoverAdminTexts : RecoverMessage(a, text)
    \/ \E cb \in btn[a] : Callback(a, cb)

\* C40: an event of an actor leaves the conversation state, the cached
\* results and the User row of every other actor as they were, and gives no
\* other actor a User row.
C40_ActorIsolation ==
    [][\A a \in {1, 3} :
          \/ \A b \in Actors \ {a} :
                /\ fsm'[b] = fsm[b]
                /\ data'[b] = data[b]
                /\ (b \in DOMAIN users') = (b \in DOMAIN users)
                /\ b \in DOMAIN users => users'[b] = users[b]
          \/ ~ActorEvent(a)]_vars

\* the registration of user 1 has just been reset at hour 17 while the admin
\* is in a search conversation: the admin's state and the row of user 4,
\* whose registration is as old, are untouched
C40_Witness ==
    /\ now > ExpiryHours
    /\ HasUser(1) /\ ~users[1].is_registered /\ users[1].display_name = Null
    /\ ran = "none"
    /\ out = << Msg(1, "registration_expired", 0, Null) >>
    /\ fsm[3] = "ready_to_search"
    /\ users[4] = RegisteredUser(<<"Dan">>, <<"7">>)

====
